---- MODULE Spec2Model ----
(***************************************************************************)
(* Facet Tag Navigator: the incremental tag index (TagIndexer), the        *)
(* watcher handlers that keep it in step with the vault, and the views     *)
(* that query it.                                                          *)
(*                                                                         *)
(* Strings are sequences of one-character strings, so that split, join,    *)
(* startsWith, trim and toLowerCase are computed character by character.   *)
(* File paths are sequences of tokens (folder names, "/", a base name and  *)
(* an extension token).                                                    *)
(***************************************************************************)
EXTENDS Integers, Sequences, FiniteSets, TLC

(***************************************************************************)
(* Bounds of the model.                                                    *)
(***************************************************************************)
\* files that exist in the vault at the same time
MaxFiles == 2
\* raw tags in the metadata cache of one file
MaxTags == 2
\* facets selected at the same time
MaxSelected == 2
\* tags excluded (NOT facets) at the same time
MaxExcluded == 2
\* entries of a frequency map handed to buildTagTree
MaxFreq == 2
\* the largest frequency of such an entry
MaxCount == 2
\* characters of a raw tag string handed to normalize
MaxLen == 3

(***************************************************************************)
(* String helpers (JavaScript String methods).                             *)
(***************************************************************************)
startsWith(s, p) ==
  /\ Len(p) <= Len(s)
  /\ SubSeq(s, 1, Len(p)) = p

Lower(c) ==
  CASE c = "A" -> "a"
    [] c = "B" -> "b"
    [] OTHER -> c

toLowerCase(s) == [i \in 1..Len(s) |-> Lower(s[i])]

IsSpace(c) == c = " "

RECURSIVE trimStart(_)
trimStart(s) ==
  IF s # <<>> /\ IsSpace(Head(s)) THEN trimStart(Tail(s)) ELSE s

RECURSIVE trimEnd(_)
trimEnd(s) ==
  IF s # <<>> /\ IsSpace(s[Len(s)]) THEN trimEnd(SubSeq(s, 1, Len(s) - 1)) ELSE s

trim(s) == trimEnd(trimStart(s))

\* s.replace(/\s+/g, "-"): every maximal run of whitespace becomes one hyphen
RECURSIVE replaceSpaces(_)
replaceSpaces(s) ==
  IF s = <<>> THEN <<>>
  ELSE IF IsSpace(Head(s)) THEN <<"-">> \o replaceSpaces(trimStart(s))
  ELSE <<Head(s)>> \o replaceSpaces(Tail(s))

\* s.split("/"): the pieces between the delimiters, empty pieces included
RECURSIVE split(_)
split(s) ==
  IF \A i \in 1..Len(s) : s[i] # "/" THEN <<s>>
  ELSE LET i == CHOOSE j \in 1..Len(s) :
                  /\ s[j] = "/"
                  /\ \A k \in 1..(j - 1) : s[k] # "/"
       IN  <<SubSeq(s, 1, i - 1)>> \o split(SubSeq(s, i + 1, Len(s)))

\* parts.filter(Boolean): the empty string is falsy
filterBoolean(parts) == SelectSeq(parts, LAMBDA x : x # <<>>)

(***************************************************************************)
(* utils.ts                                                                *)
(***************************************************************************)
withoutHash(tag) == IF startsWith(tag, <<"#">>) THEN Tail(tag) ELSE tag

normalize(tag) == toLowerCase(replaceSpaces(trim(withoutHash(tag))))

(***************************************************************************)
(* The vault and the metadata cache (the host application).                *)
(***************************************************************************)
N1 == <<"n1", ".md">>
N2 == <<"inbox", "/", "n2", ".md">>
N3 == <<"n1", ".txt">>

Paths == {N1, N2, N3}

\* TFile.extension
extension(path) == IF path[Len(path)] = ".md" THEN "md" ELSE "txt"

\* raw tag strings as a note's frontmatter list or body may carry them
RawTags ==
  { <<"#", "A">>,            \* "#A"   -> "a"
    <<"a", "/", "b">>,       \* "a/b"
    <<"#">>,                 \* "#"    -> ""
    <<"/", "a">> }           \* "/a"   (empty first segment)

TagLists == { T \in SUBSET RawTags : Cardinality(T) <= MaxTags }

VARIABLES
  vault,            \* path of every file in the vault -> the raw tags of its content
  exactTagToFiles,  \* TagIndexer: tag -> files that carry exactly this tag
  tagToFiles,       \* TagIndexer: tag -> files that carry it or a descendant
  fileToExactTags,  \* TagIndexer: file -> its exact tags
  ready,            \* TagIndexer.ready
  viewOpen,         \* a FacetNavigatorView leaf exists
  viewKind,         \* which revision of the view the build carries
  selected,         \* view: Map tag -> match mode, in insertion order
  excluded,         \* view: Set of excluded tags, in insertion order
  currentFiles,     \* view: the result set
  coFreq,           \* view: the co-tag frequencies handed to the co-tag panel
  startEmpty,       \* settings.startEmpty
  excludedFolders,  \* settings.excludedFolders
  treeFreq,         \* a frequency map handed to buildTagTree: entries in Map order
  treeRoots,        \* the tree buildTagTree returned for treeFreq
  rawTag,           \* a raw tag string as a note or a caller supplies it
  tagPath,          \* <<normalize(rawTag)>> once it is computed, <<>> before
  ancestors,        \* <<parentsOf(the tag path)>> once it is computed, <<>> before
  safeRebuild,      \* the debounced safeRebuild of attachWatchers: its timer, how
                    \* far its callback has run, the files rebuild has yet to index
  lastEvent,        \* history: the last watcher event handled while no view is open
  rows,             \* view: the expandable rows of the co-tag panel, tag -> the
                    \* click timer and the expansion of the row
  savedViews,       \* settings.savedViews, in array order
  matchCall,        \* a call of FacetManager.fileMatches: its arguments and result
  refreshLog,       \* history: the calls of onRefresh the last operation of a
                    \* FacetManager with recording callbacks made
  gesture,          \* history: the pointer gesture under way on a row
  keyboardNavigator,\* KeyboardNavigator: its fields
  navPanel,         \* view: the result items on screen, the pending timers of
                    \* excludeCurrentTag, the slash command in the search box
  expansionManager, \* ExpansionManager: expansionState and preSearchState
  tagPanel          \* view: the co-tag frequencies, searchQuery and coTagSort of
                    \* the last renderCoTags and the rows it rendered

indexVars == <<exactTagToFiles, tagToFiles, fileToExactTags>>
viewVars == <<viewOpen, viewKind, selected, excluded, currentFiles, coFreq,
              startEmpty, excludedFolders, rows>>
vars == <<vault, exactTagToFiles, tagToFiles, fileToExactTags, ready, viewOpen,
          viewKind, selected, excluded, currentFiles, coFreq, startEmpty,
          excludedFolders, treeFreq, treeRoots, rawTag, tagPath, ancestors,
          safeRebuild, lastEvent, rows, savedViews, matchCall, refreshLog, gesture,
          keyboardNavigator, navPanel, expansionManager, tagPanel>>
tagPathVars == <<rawTag, tagPath, ancestors>>
treeVars == <<treeFreq, treeRoots>>
\* what the watcher handlers and the view never touch
\* the widgets of the co-tag panel
widgetVars == <<keyboardNavigator, navPanel, expansionManager, tagPanel>>
asideVars == <<treeVars, tagPathVars, safeRebuild, savedViews, matchCall, widgetVars>>
\* the history of the facet operations and of the pointer
traceVars == <<refreshLog, gesture>>
\* what the indexer and the pure functions never touch
uiVars == <<savedViews, matchCall, traceVars, widgetVars>>

\* vault.getMarkdownFiles()
getMarkdownFiles(v) == { p \in DOMAIN v : extension(p) = "md" }

\* metadataCache.getFileCache(file): the raw tags of a file's content
getFileCache(v, path) == v[path]

(***************************************************************************)
(* Map helpers (JavaScript Map: a function whose domain is the key set).   *)
(***************************************************************************)
EmptyMap == [k \in {} |-> {}]

MapSet(m, k, val) == [x \in DOMAIN m \cup {k} |-> IF x = k THEN val ELSE m[x]]

MapDelete(m, k) == [x \in DOMAIN m \ {k} |-> m[x]]

\* map.get(k) ?? new Set()
GetOrEmpty(m, k) == IF k \in DOMAIN m THEN m[k] ELSE {}

(***************************************************************************)
(* TagIndexer                                                              *)
(***************************************************************************)
Index(e, r, f) == [exactTagToFiles |-> e, tagToFiles |-> r, fileToExactTags |-> f]

EmptyIndex == Index(EmptyMap, EmptyMap, EmptyMap)

\* the index as the three variables hold it
idx == Index(exactTagToFiles, tagToFiles, fileToExactTags)

\* collectTags: every raw tag of the cache, normalized, collected in a Set
collectTags(cache) == { normalize(t) : t \in cache }

RECURSIVE joinPrefixes(_, _)
\* the loop of parentsOf: acc grows by one segment per step
joinPrefixes(acc, parts) ==
  IF parts = <<>> THEN <<>>
  ELSE LET next == IF acc = <<>> THEN Head(parts) ELSE acc \o <<"/">> \o Head(parts)
       IN  <<next>> \o joinPrefixes(next, Tail(parts))

parentsOf(tag) == joinPrefixes(<<>>, filterBoolean(split(tag)))

\* bucketDelete without the pruning of an emptied bucket
bucketDeleteNoPrune(m, k, fileId) ==
  IF k \notin DOMAIN m THEN m ELSE [m EXCEPT ![k] = @ \ {fileId}]

\* const b = map.get(k); if (b) { b.delete(fileId); if (!b.size) map.delete(k); }
bucketDelete(m, k, fileId) ==
  IF k \notin DOMAIN m THEN m
  ELSE IF m[k] \ {fileId} = {} THEN MapDelete(m, k)
  ELSE [m EXCEPT ![k] = @ \ {fileId}]

\* let b = map.get(k); if (!b) map.set(k, b = new Set()); b.add(fileId);
bucketAdd(m, k, fileId) == MapSet(m, k, GetOrEmpty(m, k) \cup {fileId})

RECURSIVE bucketDeleteEach(_, _, _)
bucketDeleteEach(m, keys, fileId) ==
  IF keys = <<>> THEN m
  ELSE bucketDeleteEach(bucketDelete(m, Head(keys), fileId), Tail(keys), fileId)

RECURSIVE bucketAddEach(_, _, _)
bucketAddEach(m, keys, fileId) ==
  IF keys = <<>> THEN m
  ELSE bucketAddEach(bucketAdd(m, Head(keys), fileId), Tail(keys), fileId)

\* one iteration of the "remove prev" loop
unindexTag(ix, fileId, t) ==
  [ix EXCEPT !.exactTagToFiles = bucketDelete(@, t, fileId),
             !.tagToFiles = bucketDeleteEach(@, parentsOf(t), fileId)]

\* one iteration of the "add new" loop
addTag(ix, fileId, t) ==
  [ix EXCEPT !.exactTagToFiles = bucketAdd(@, t, fileId),
             !.tagToFiles = bucketAddEach(@, parentsOf(t), fileId)]

RECURSIVE unindexTags(_, _, _)
unindexTags(ix, fileId, tags) ==
  IF tags = {} THEN ix
  ELSE LET t == CHOOSE x \in tags : TRUE
       IN  unindexTags(unindexTag(ix, fileId, t), fileId, tags \ {t})

RECURSIVE addTags(_, _, _)
addTags(ix, fileId, tags) ==
  IF tags = {} THEN ix
  ELSE LET t == CHOOSE x \in tags : TRUE
       IN  addTags(addTag(ix, fileId, t), fileId, tags \ {t})

\* indexFile with its two loops swapped: the new tags are added, then the
\* previous ones are removed
indexFileAddThenRemove(ix, fileId, cache) ==
  LET nextExact == collectTags(cache)
      prevExact == GetOrEmpty(ix.fileToExactTags, fileId)
      stored == [ix EXCEPT !.fileToExactTags = MapSet(@, fileId, nextExact)]
  IN  unindexTags(addTags(stored, fileId, nextExact), fileId, prevExact)

\* indexFile(file), with the file's cache passed in
indexFile(ix, fileId, cache) ==
  LET indexed(nextExact) ==
        LET prevExact == GetOrEmpty(ix.fileToExactTags, fileId)
            removed == unindexTags(ix, fileId, prevExact)
            stored == [removed EXCEPT !.fileToExactTags = MapSet(@, fileId, nextExact)]
        IN  addTags(stored, fileId, nextExact)
  \* const nextExact = this.collectTags(cache): computed once
  IN  CHOOSE r \in { indexed(nextExact) : nextExact \in {collectTags(cache)} } : TRUE

RECURSIVE bucketDeleteKeys(_, _, _)
bucketDeleteKeys(m, tags, fileId) ==
  IF tags = {} THEN m
  ELSE LET t == CHOOSE x \in tags : TRUE
       IN  bucketDeleteKeys(bucketDelete(m, t, fileId), tags \ {t}, fileId)

\* removeFile without the inner loop over parentsOf(t)
removeFileExactOnly(ix, fileId) ==
  IF fileId \notin DOMAIN ix.fileToExactTags THEN ix
  ELSE [ix EXCEPT !.exactTagToFiles =
                     bucketDeleteKeys(@, ix.fileToExactTags[fileId], fileId),
                  !.fileToExactTags = MapDelete(@, fileId)]

removeFile(ix, fileId) ==
  IF fileId \notin DOMAIN ix.fileToExactTags THEN ix
  ELSE LET removed == unindexTags(ix, fileId, ix.fileToExactTags[fileId])
       IN  [removed EXCEPT !.fileToExactTags = MapDelete(@, fileId)]

RECURSIVE indexFiles(_, _, _)
\* for (const f of files) this.indexFile(f)
indexFiles(ix, v, files) ==
  IF files = {} THEN ix
  ELSE LET f == CHOOSE x \in files : TRUE
       IN  indexFiles(indexFile(ix, f, getFileCache(v, f)), v, files \ {f})

\* rebuild without this.fileToExactTags.clear()
clearPostingsOnly(ix) ==
  [ix EXCEPT !.exactTagToFiles = EmptyMap, !.tagToFiles = EmptyMap]

\* the three clear() calls of rebuild
clear(ix) ==
  [ix EXCEPT !.exactTagToFiles = EmptyMap,
             !.tagToFiles = EmptyMap,
             !.fileToExactTags = EmptyMap]

\* rebuild(): the three maps are cleared, then every markdown file is indexed
rebuild(ix, v) == indexFiles(clear(ix), v, getMarkdownFiles(v))

allTags(ix) == DOMAIN ix.tagToFiles

exactTagsForFile(ix, fileId) == GetOrEmpty(ix.fileToExactTags, fileId)



\* intersect without the b.has(v) test
intersectKeepsSmaller(a, b) == IF Cardinality(a) > Cardinality(b) THEN b ELSE a

\* intersect(a, b) of filesWithAll: the smaller set is scanned against the larger
intersect(a, b) ==
  IF Cardinality(a) > Cardinality(b)
    THEN { x \in b : x \in a }
    ELSE { x \in a : x \in b }

RECURSIVE insertBySize(_, _)
\* one step of the stable sort((a, b) => a.size - b.size)
insertBySize(sorted, s) ==
  IF sorted = <<>> THEN <<s>>
  ELSE IF Cardinality(Head(sorted)) <= Cardinality(s)
         THEN <<Head(sorted)>> \o insertBySize(Tail(sorted), s)
         ELSE <<s>> \o sorted

RECURSIVE sortBySize(_)
sortBySize(sets) ==
  IF sets = <<>> THEN <<>>
  ELSE insertBySize(sortBySize(SubSeq(sets, 1, Len(sets) - 1)), sets[Len(sets)])

RECURSIVE reduceIntersect(_, _)
\* sets.reduce((acc, s) => acc ? intersect(acc, s) : new Set(s)): acc is an object,
\* hence truthy
reduceIntersect(acc, rest) ==
  IF rest = <<>> THEN acc
  ELSE reduceIntersect(intersect(acc, Head(rest)), Tail(rest))

\* postings that take the rolled-up bucket for an exact tag too
postingsRolledUp(ix, t, exacts) == GetOrEmpty(ix.tagToFiles, toLowerCase(t))

\* the bucket filesWithAll looks up for one tag
postings(ix, t, exacts) ==
  LET key == toLowerCase(t)
  IN  IF key \in exacts
        THEN GetOrEmpty(ix.exactTagToFiles, key)
        ELSE GetOrEmpty(ix.tagToFiles, key)

\* filesWithAll(tags, exacts): the value of the returned set
filesWithAll(ix, tags, exacts) ==
  IF tags = <<>> THEN {}
  ELSE LET sets == sortBySize([i \in 1..Len(tags) |-> postings(ix, tags[i], exacts)])
       IN  reduceIntersect(Head(sets), Tail(sets))

NoBucket == [map |-> "none", key |-> <<>>]

\* filesWithAll(tags, exacts): the identity of the returned set. reduce() without
\* an initial value never calls its callback on a one-element array and returns
\* the element itself: the Set object stored in the index. Every other result is
\* a fresh Set.
filesWithAllBucket(ix, tags, exacts) ==
  IF Len(tags) # 1 THEN NoBucket
  ELSE LET key == toLowerCase(tags[1])
       IN  IF key \in exacts
             THEN IF key \in DOMAIN ix.exactTagToFiles
                    THEN [map |-> "exactTagToFiles", key |-> key] ELSE NoBucket
             ELSE IF key \in DOMAIN ix.tagToFiles
                    THEN [map |-> "tagToFiles", key |-> key] ELSE NoBucket

(***************************************************************************)
(* Facet state: a Map and a Set, kept in insertion order.                  *)
(***************************************************************************)
Range(s) == { s[i] : i \in 1..Len(s) }

Facet(t, m) == [tag |-> t, mode |-> m]

\* Array.from(selected.keys())
keys(sel) == [i \in 1..Len(sel) |-> sel[i].tag]

has(sel, t) == \E i \in 1..Len(sel) : sel[i].tag = t

\* Map.set: an existing key keeps its place
mapSet(sel, t, m) ==
  IF has(sel, t)
    THEN [i \in 1..Len(sel) |-> IF sel[i].tag = t THEN Facet(t, m) ELSE sel[i]]
    ELSE Append(sel, Facet(t, m))

mapDelete(sel, t) == SelectSeq(sel, LAMBDA f : f.tag # t)

modeOf(sel, t) == (CHOOSE f \in Range(sel) : f.tag = t).mode

setDelete(seq, t) == SelectSeq(seq, LAMBDA x : x # t)

RECURSIVE setFrom(_)
\* new Set(array), or Map.set over an array: the first occurrence keeps its place
setFrom(seq) ==
  IF seq = <<>> THEN <<>>
  ELSE LET init == setFrom(SubSeq(seq, 1, Len(seq) - 1))
       IN  IF seq[Len(seq)] \in Range(init) THEN init ELSE Append(init, seq[Len(seq)])

(***************************************************************************)
(* FacetNavigatorView.refresh, in the two revisions of the view.           *)
(***************************************************************************)
Refreshed(ix, files) == [index |-> ix, currentFiles |-> files]

\* the union-all branch: every file of every bucket of allTags()
unionOfAllTags(ix) == UNION { filesWithAll(ix, <<tag>>, {}) : tag \in allTags(ix) }

\* the tags whose mode is "exact"
exactTagsOf(sel) == { f.tag : f \in { g \in Range(sel) : g.mode = "exact" } }

\* src/FacetNavigatorView.ts: the result is what filesWithAll returned, and the
\* excluded files are deleted from that very Set
legacyRefresh(ix, sel, exc, se) ==
  IF sel = <<>>
    THEN Refreshed(ix, IF se THEN {} ELSE unionOfAllTags(ix))
    ELSE LET included == filesWithAll(ix, keys(sel), exactTagsOf(sel))
             bucket == filesWithAllBucket(ix, keys(sel), exactTagsOf(sel))
             excludedFiles == filesWithAll(ix, exc, {})
             kept == IF exc # <<>> THEN included \ excludedFiles ELSE included
         IN  CASE bucket.map = "exactTagToFiles" ->
                    Refreshed([ix EXCEPT !.exactTagToFiles[bucket.key] = kept], kept)
               [] bucket.map = "tagToFiles" ->
                    Refreshed([ix EXCEPT !.tagToFiles[bucket.key] = kept], kept)
               [] OTHER -> Refreshed(ix, kept)

\* FacetManager.getTagFilters
getTagFilters(sel) ==
  [i \in 1..Len(sel) |->
     Facet(sel[i].tag, IF sel[i].mode = "exact" THEN "exact" ELSE "prefix")]

\* FacetManager.fileMatches
fileMatches(filters, fileTags) ==
  \A i \in 1..Len(filters) :
     IF filters[i].mode = "exact"
       THEN filters[i].tag \in fileTags
       ELSE \E t \in fileTags :
              t = filters[i].tag \/ startsWith(t, filters[i].tag \o <<"/">>)

isFileInExcludedFolder(filePath, folders) ==
  \E folder \in folders :
     startsWith(filePath, folder \o <<"/">>) \/ filePath = folder

\* the files the exclusion pass of the FacetManager revision collects
filesToRemove(ix, v, exc, folders) ==
  { file \in getMarkdownFiles(v) :
      /\ ~isFileInExcludedFolder(file, folders)
      /\ \E excludedTag \in Range(exc) :
           \E fileTag \in exactTagsForFile(ix, file) :
              fileTag = excludedTag \/ startsWith(fileTag, excludedTag \o <<"/">>) }

\* the FacetManager revision of refresh
facetsRefresh(ix, v, sel, exc, se, folders) ==
  LET matched ==
        IF sel = <<>>
          THEN IF se THEN {} ELSE unionOfAllTags(ix)
          ELSE { file \in getMarkdownFiles(v) :
                   /\ ~isFileInExcludedFolder(file, folders)
                   /\ fileMatches(getTagFilters(sel), exactTagsForFile(ix, file)) }
  IN  Refreshed(ix, IF exc # <<>> THEN matched \ filesToRemove(ix, v, exc, folders)
                                  ELSE matched)

refresh(kind, ix, v, sel, exc, se, folders) ==
  IF kind = "legacy"
    THEN legacyRefresh(ix, sel, exc, se)
    ELSE facetsRefresh(ix, v, sel, exc, se, folders)

(***************************************************************************)
(* The co-tag panel: TagIndexer.coTagFrequencies and renderCoTags.         *)
(***************************************************************************)
\* coTagFrequencies that never consults exclude
coTagFrequenciesOfAll(ix, files, exclude) ==
  LET tags == UNION { GetOrEmpty(ix.fileToExactTags, f) : f \in files }
  IN  [t \in tags |->
         Cardinality({ f \in files : t \in GetOrEmpty(ix.fileToExactTags, f) })]

RECURSIVE countTags(_, _, _)
\* for (const t of tags) { if (exclude.has(t)) continue; freq.set(t, (freq.get(t) ?? 0) + 1); }
countTags(freq, tags, exclude) ==
  IF tags = {} THEN freq
  ELSE LET t == CHOOSE x \in tags : TRUE
           next == IF t \in exclude THEN freq
                   ELSE IF t \in DOMAIN freq THEN [freq EXCEPT ![t] = @ + 1]
                   ELSE MapSet(freq, t, 1)
       IN  countTags(next, tags \ {t}, exclude)

RECURSIVE countFiles(_, _, _, _)
\* the loop of coTagFrequencies over currentFiles; a file without an entry in
\* fileToExactTags is skipped
countFiles(ix, freq, files, exclude) ==
  IF files = {} THEN freq
  ELSE LET fid == CHOOSE x \in files : TRUE
           next == IF fid \notin DOMAIN ix.fileToExactTags THEN freq
                   ELSE countTags(freq, ix.fileToExactTags[fid], exclude)
       IN  countFiles(ix, next, files \ {fid}, exclude)

coTagFrequencies(ix, files, exclude) == countFiles(ix, EmptyMap, files, exclude)

\* the tags of a frequency map that descend from an excluded tag
additionalExclusions(exc, freq) ==
  { tag \in DOMAIN freq : \E excludedTag \in Range(exc) :
                             startsWith(tag, excludedTag \o <<"/">>) }

\* renderCoTags without the second pass
renderCoTagsOnePass(kind, ix, files, sel, exc) ==
  coTagFrequencies(ix, files, Range(keys(sel)) \cup Range(exc))

\* renderCoTags, up to the frequency map it hands to the tree: the view of
\* src/FacetNavigatorView.ts has no second pass
renderCoTags(kind, ix, files, sel, exc) ==
  LET exclude == Range(keys(sel)) \cup Range(exc)
      first == coTagFrequencies(ix, files, exclude)
      additional == additionalExclusions(exc, first)
  IN  IF kind # "legacy" /\ additional # {}
        THEN coTagFrequencies(ix, files, exclude \cup additional)
        ELSE first

(***************************************************************************)
(* The co-tag tree: buildTagTree of utils.ts and of the TagRenderer. A     *)
(* tree is the map of its nodes, keyed by the full path a node was created *)
(* with; parent is <<>> for a root and <<key>> for a child of node key.    *)
(***************************************************************************)
Entry(tag, n) == [tag |-> tag, n |-> n]

NoParent == <<>>

Node(label, full, parent) ==
  [label |-> label, full |-> full, count |-> 0, exactCount |-> 0, parent |-> parent]

RECURSIVE walkLayers(_, _, _, _, _, _)
\* the inner loop of utils.buildTagTree from segment i on: layer.get(seg) looks
\* the segment up among the children of the node walked last
walkLayers(nodes, parts, i, acc, parent, n) ==
  IF i > Len(parts) THEN nodes
  ELSE LET next == IF i = 1 THEN parts[1] ELSE acc \o <<"/">> \o parts[i]
           seg == parts[i]
           found == { k \in DOMAIN nodes :
                        nodes[k].parent = parent /\ nodes[k].label = seg }
           key == IF found # {} THEN CHOOSE k \in found : TRUE ELSE next
           node == IF found # {} THEN nodes[key] ELSE Node(seg, next, parent)
           counted == [node EXCEPT !.count = @ + n,
                                   !.exactCount = IF i = Len(parts) THEN @ + n ELSE @]
       IN  walkLayers(MapSet(nodes, key, counted), parts, i + 1, next, <<key>>, n)

RECURSIVE buildTagTreeFrom(_, _)
\* the outer loop of utils.buildTagTree over the entries of freq
buildTagTreeFrom(nodes, entries) ==
  IF entries = <<>> THEN nodes
  ELSE LET parts == filterBoolean(split(Head(entries).tag))
           next == IF parts = <<>> THEN nodes
                   ELSE walkLayers(nodes, parts, 1, <<>>, NoParent, Head(entries).n)
       IN  buildTagTreeFrom(next, Tail(entries))

\* utils.buildTagTree(freq)
buildTagTree(entries) == buildTagTreeFrom(EmptyMap, entries)

RECURSIVE insertByCount(_, _)
\* one step of the stable sort((a, b) => b[1] - a[1])
insertByCount(sorted, e) ==
  IF sorted = <<>> THEN <<e>>
  ELSE IF Head(sorted).n >= e.n
         THEN <<Head(sorted)>> \o insertByCount(Tail(sorted), e)
         ELSE <<e>> \o sorted

RECURSIVE sortedTags(_)
sortedTags(entries) ==
  IF entries = <<>> THEN <<>>
  ELSE insertByCount(sortedTags(SubSeq(entries, 1, Len(entries) - 1)),
                     entries[Len(entries)])

RECURSIVE walkPaths(_, _, _, _, _, _)
\* the inner loop of TagRenderer.buildTagTree from part i on: allNodes is keyed
\* by currentPath, and an empty currentPath is falsy
walkPaths(nodes, parts, i, currentPath, parentNode, count) ==
  IF i > Len(parts) THEN nodes
  ELSE LET part == parts[i]
           path == IF currentPath # <<>> THEN currentPath \o <<"/">> \o part ELSE part
           node == IF path \in DOMAIN nodes THEN nodes[path]
                   ELSE Node(part, path, parentNode)
           counted == [node EXCEPT !.exactCount = IF i = Len(parts) THEN count ELSE @,
                                   !.count = @ + count]
       IN  walkPaths(MapSet(nodes, path, counted), parts, i + 1, path, <<path>>, count)

RECURSIVE renderTagTreeFrom(_, _)
\* the outer loop of TagRenderer.buildTagTree over the sorted entries
renderTagTreeFrom(nodes, entries) ==
  IF entries = <<>> THEN nodes
  ELSE renderTagTreeFrom(walkPaths(nodes, split(Head(entries).tag), 1, <<>>, NoParent,
                                   Head(entries).n),
                         Tail(entries))

\* TagRenderer.buildTagTree(freq, "/")
TagRenderer_buildTagTree(entries) == renderTagTreeFrom(EmptyMap, sortedTags(entries))

Tree(by, nodes) == [by |-> by, nodes |-> nodes]

NoTree == Tree("none", EmptyMap)

(***************************************************************************)
(* Facet mutators: the view of src/FacetNavigatorView.ts ("legacy") and    *)
(* the FacetManager. Each returns the new <<selected, excluded>>.          *)
(***************************************************************************)
\* utils.normalizeTag
normalizeTag(tag) == normalize(tag)

\* the normalisation a revision applies to a tag it is handed
canon(kind, tag) == IF kind = "legacy" THEN toLowerCase(tag) ELSE normalizeTag(tag)

\* the name a revision gives the subtree mode
subtreeMode(kind) == IF kind = "legacy" THEN "descendants" ELSE "prefix"

hasTagChildren(tag, tags) ==
  \E t \in tags : t # tag /\ startsWith(t, tag \o <<"/">>)

addFacetMode(kind, n, includeDescendantsByDefault, tags) ==
  IF kind = "legacy"
    THEN IF includeDescendantsByDefault THEN "descendants" ELSE "exact"
    ELSE IF includeDescendantsByDefault /\ hasTagChildren(n, tags)
           THEN "prefix" ELSE "exact"

toggleExcludedSet(exc, n) ==
  IF n \in Range(exc) THEN setDelete(exc, n) ELSE Append(exc, n)

setFacetsMap(kind, tags, includeDescendantsByDefault) ==
  LET normalized == SelectSeq([i \in 1..Len(tags) |-> canon(kind, tags[i])],
                              LAMBDA t : t # <<>>)
      mode == IF includeDescendantsByDefault THEN subtreeMode(kind) ELSE "exact"
      distinct == setFrom(normalized)
  IN  [i \in 1..Len(distinct) |-> Facet(distinct[i], mode)]

\* FacetManager.hasSelectedDescendants(node), full == node.full
hasSelectedDescendants(sel, exc, full) ==
  \/ has(sel, full)
  \/ full \in Range(exc)
  \/ \E selectedTag \in Range(keys(sel)) : startsWith(selectedTag, full \o <<"/">>)
  \/ \E excludedTag \in Range(exc) : startsWith(excludedTag, full \o <<"/">>)

(***************************************************************************)
(* Inputs of the actions.                                                  *)
(***************************************************************************)
\* tags the user picks as facets (tree rows, search box, saved views)
FacetInputs == { <<"A">>, <<"a", "/", "b">> }

\* tags handed to a FacetManager: a parent of another, a tag that normalizes to
\* the empty string
ManagerInputs == FacetInputs \cup { <<"a">>, <<"#">> }

\* tag lists of saved views handed to setFacets
SavedLists == { <<>>, <<<<"A">>, <<"a", "/", "b">>>>, <<<<"a", "/", "b">>, <<"a", "/", "b">>>> }

\* the vault while a view is open: markdown notes with well-formed tags
ViewPaths == {N1, N2}
ViewTagLists == { T \in SUBSET { <<"#", "A">>, <<"a", "/", "b">>, <<" ", "b">>,
                                 <<"a", "/", "b", "/", "c">> } :
                    Cardinality(T) <= MaxTags }
\* the vault under the view of src/FacetNavigatorView.ts: one tag per note
LegacyTagLists == { {}, {<<"#", "A">>}, {<<"a", "/", "b">>} }

FolderSettings == { {}, {<<"inbox">>} }

\* the keys of the frequency maps handed to buildTagTree: exact tags as the
\* index holds them
TreeTags == { <<"a">>, <<"a", "/", "b">>, <<"a", "/", "b", "/", "c">>, <<"/", "a">> }

RECURSIVE FreqMapsOf(_)
\* the frequency maps of n entries, in every Map order
FreqMapsOf(n) ==
  IF n = 0 THEN { <<>> }
  ELSE { Append(m, Entry(t, c)) :
           m \in { x \in FreqMapsOf(n - 1) : Len(x) = n - 1 },
           t \in TreeTags, c \in 1..MaxCount }

FreqMaps ==
  { m \in UNION { FreqMapsOf(n) : n \in 0..MaxFreq } :
      \A i, j \in 1..Len(m) : i # j => m[i].tag # m[j].tag }

(***************************************************************************)
(* Actions: plugin load, the watcher handlers of attachWatchers, the view. *)
(***************************************************************************)
SetIndex(ix) ==
  /\ exactTagToFiles' = ix.exactTagToFiles
  /\ tagToFiles' = ix.tagToFiles
  /\ fileToExactTags' = ix.fileToExactTags

\* kind: the watcher; path: the file of the event (the old path of a rename);
\* known: the indexer had an entry for path; same: a "changed" event that found
\* the tags it had found before
Event(kind, path, known, same) ==
  [kind |-> kind, path |-> path, known |-> known, same |-> same]

NoEvent == Event("none", <<>>, FALSE, FALSE)

Log(kind, path, same) ==
  lastEvent' = IF viewOpen THEN NoEvent
               ELSE Event(kind, path, path \in DOMAIN fileToExactTags, same)

\* a row of the co-tag panel: clickTimeout is the closure's timer pending,
\* expanded its flag
Row(clickTimeout, expanded) == [clickTimeout |-> clickTimeout, expanded |-> expanded]

\* the nodes renderTreeNode finds with children: the proper prefixes of the
\* co-tags
expandableTags(freq) ==
  { p \in UNION { Range(parentsOf(k)) : k \in DOMAIN freq } :
      \E k \in DOMAIN freq : startsWith(k, p \o <<"/">>) }

\* renderCoTags of src/FacetNavigatorView.ts renders every row anew: no timer,
\* expanded as expandDefault says (the flat list of showNamespaceHeaders off,
\* the search box empty). The rows of the other revisions are not followed.
renderRows(kind, freq, sel, exc) ==
  IF kind = "legacy"
    THEN [t \in expandableTags(freq) |-> Row(FALSE, sel # <<>> \/ exc # <<>>)]
    ELSE EmptyMap

\* op: the operation, tag: its argument; calls: how often it called onRefresh;
\* seen: the <<selected, excluded>> the last of these calls found
Refreshes(op, tag, calls, seen) == [op |-> op, tag |-> tag, calls |-> calls, seen |-> seen]

NoRefresh == Refreshes("none", <<>>, 0, <<>>)

\* phase: "idle", "click" (one click delivered) or "clicks" (two delivered, the
\* dblclick due); tag: the row; toggles, adds: what the gesture did so far
Gesture(phase, tag, toggles, adds) ==
  [phase |-> phase, tag |-> tag, toggles |-> toggles, adds |-> adds]

NoGesture == Gesture("idle", <<>>, 0, 0)

\* how a call ended: threw, or returned value
Outcome(threw, value) == [threw |-> threw, value |-> value]

\* filters: a Map of selected facets, or the TagFilter list made of its entries;
\* built: <<>> before getTagFilters has run on it, <<its outcome>> after;
\* result: the same for fileMatches(filters, fileTags)
Call(filters, fileTags, built, result) ==
  [filters |-> filters, fileTags |-> fileTags, built |-> built, result |-> result]

NoCall == Call(<<>>, {}, <<>>, <<>>)

\* view.refresh() on the index ix and the facets sel, exc: "Indexing..." and
\* nothing else while the indexer is not ready. (\E x \in {e} binds the value of
\* e once.)
Refresh(ix, sel, exc) ==
  IF ready
    THEN \E r \in {refresh(viewKind', ix, vault', sel, exc, startEmpty', excludedFolders')} :
            /\ SetIndex(r.index)
            /\ currentFiles' = r.currentFiles
            /\ \E freq \in {renderCoTags(viewKind', r.index, r.currentFiles, sel, exc)} :
                  /\ coFreq' = freq
                  /\ rows' = renderRows(viewKind', freq, sel, exc)
    ELSE SetIndex(ix) /\ UNCHANGED <<currentFiles, coFreq, rows>>

\* an onReady() that runs before the handler has changed the index: the views
\* are refreshed on the index as it was
onReadyBeforeMutation(ix) ==
  /\ UNCHANGED <<viewOpen, viewKind, selected, excluded, startEmpty, excludedFolders>>
  /\ SetIndex(ix)
  /\ IF viewOpen /\ ready
       THEN \E r \in {refresh(viewKind, idx, vault', selected, excluded, startEmpty,
                              excludedFolders)} :
               /\ currentFiles' = r.currentFiles
               /\ \E freq \in {renderCoTags(viewKind, r.index, r.currentFiles, selected,
                                              excluded)} :
                     /\ coFreq' = freq
                     /\ rows' = renderRows(viewKind, freq, selected, excluded)
       ELSE UNCHANGED <<currentFiles, coFreq, rows>>

\* onReady(): every open view is refreshed
onReady(ix) ==
  /\ UNCHANGED <<viewOpen, viewKind, selected, excluded, startEmpty, excludedFolders>>
  /\ IF viewOpen
       THEN Refresh(ix, selected, excluded)
       ELSE SetIndex(ix) /\ UNCHANGED <<currentFiles, coFreq, rows>>

\* a KeyboardNavigator; allVisibleTags holds node.full of every node
Navigator(focusMode, tagIndex, resultIndex, lastInteractionType, tags) ==
  [focusMode |-> focusMode, focusedTagIndex |-> tagIndex,
   focusedResultIndex |-> resultIndex,
   lastInteractionType |-> lastInteractionType, allVisibleTags |-> tags]

\* new KeyboardNavigator(callbacks)
NewNavigator == Navigator("search", -1, -1, "search", <<>>)

\* resultItems: the number of .result-item elements; restoreTimers: the
\* setTimeout(..., 0) callbacks of excludeCurrentTag that are pending, each with
\* the tag and the index it captured; searchInput: the value of the search box
\* when it starts with "/", "" otherwise
NavPanel(resultItems, restoreTimers, searchInput) ==
  [resultItems |-> resultItems, restoreTimers |-> restoreTimers,
   searchInput |-> searchInput]

\* an ExpansionManager
Expansion(expansionState, preSearchState) ==
  [expansionState |-> expansionState, preSearchState |-> preSearchState]

\* coFreq: the entries handed to TagRenderer.renderCoTags; expanded:
\* node.expanded of the nodes it rendered; rows: node.full of the rows in the
\* order of the screen; toggled (history): the state the user gave a node
\* with its last single toggle, until clear, expandAll or collapseAll
TagPanel(entries, searchQuery, coTagSort, expanded, shown, toggled) ==
  [coFreq |-> entries, searchQuery |-> searchQuery, coTagSort |-> coTagSort,
   expanded |-> expanded, rows |-> shown, toggled |-> toggled]

\* the widgets as the constructor of the view leaves them
Widgets ==
  /\ keyboardNavigator = NewNavigator
  /\ navPanel = NavPanel(0, <<>>, "")
  /\ expansionManager = Expansion(EmptyMap, EmptyMap)
  /\ tagPanel = TagPanel(<<>>, <<>>, "count", EmptyMap, <<>>, EmptyMap)

\* safeRebuild: timer is the debounce timer running; stage is "idle", "rebuilding"
\* (rebuild has given up control with the files of rest still to index) or
\* "awaiting" (rebuild has returned, onReady() is still to run)
SafeRebuild(timer, stage, rest) == [timer |-> timer, stage |-> stage, rest |-> rest]

\* the state when the plugin has loaded in an empty vault: onload awaits
\* rebuild() before it attaches the watchers
Loaded ==
  /\ vault = [p \in {} |-> {}]
  /\ LET ix == rebuild(EmptyIndex, vault)
     IN  /\ exactTagToFiles = ix.exactTagToFiles
         /\ tagToFiles = ix.tagToFiles
         /\ fileToExactTags = ix.fileToExactTags
  /\ ready = TRUE
  /\ viewOpen = FALSE
  /\ viewKind = "none"
  /\ selected = <<>>
  /\ excluded = <<>>
  /\ currentFiles = {}
  /\ coFreq = EmptyMap
  /\ startEmpty = FALSE
  /\ excludedFolders = {}
  /\ safeRebuild = SafeRebuild(FALSE, "idle", {})
  /\ lastEvent = NoEvent
  /\ rows = EmptyMap
  /\ savedViews = <<>>
  /\ refreshLog = NoRefresh
  /\ gesture = NoGesture
  /\ Widgets

Init ==
  /\ Loaded
  /\ matchCall = NoCall
  /\ treeFreq = <<>>
  /\ treeRoots = NoTree
  /\ rawTag = <<>>
  /\ tagPath = <<>>
  /\ ancestors = <<>>

\* the ids the index holds that are not markdown files of the vault
staleIds == DOMAIN fileToExactTags \ getMarkdownFiles(vault)

\* metadataCache "resolved": the debounced safeRebuild runs
OnResolved ==
  /\ UNCHANGED <<vault, ready, asideVars, traceVars>>
  /\ Log("resolved", IF staleIds = {} THEN <<>> ELSE CHOOSE p \in staleIds : TRUE, FALSE)
  /\ \E ix \in {rebuild(idx, vault)} : onReady(ix)

\* metadataCache "changed": the content of a file was edited and re-parsed
OnChanged(file, cache) ==
  /\ file \in DOMAIN vault
  /\ vault' = [vault EXCEPT ![file] = cache]
  /\ UNCHANGED <<ready, asideVars, traceVars>>
  /\ Log("changed", file, cache = vault[file])
  /\ IF extension(file) # "md"
       THEN UNCHANGED <<indexVars, viewVars>>
       ELSE \E ix \in {indexFile(idx, file, getFileCache(vault', file))} : onReady(ix)

\* vault "delete"
OnDelete(f) ==
  /\ f \in DOMAIN vault
  /\ vault' = [p \in DOMAIN vault \ {f} |-> vault[p]]
  /\ UNCHANGED <<ready, asideVars, traceVars>>
  /\ Log("delete", f, FALSE)
  /\ IF extension(f) # "md"
       THEN UNCHANGED <<indexVars, viewVars>>
       ELSE \E ix \in {removeFile(idx, f)} : onReady(ix)

\* vault "create"
OnCreate(f, cache) ==
  /\ f \notin DOMAIN vault
  /\ Cardinality(DOMAIN vault) < MaxFiles
  /\ vault' = [p \in DOMAIN vault \cup {f} |-> IF p = f THEN cache ELSE vault[p]]
  /\ UNCHANGED <<ready, asideVars, traceVars>>
  /\ Log("create", f, FALSE)
  /\ IF extension(f) # "md"
       THEN UNCHANGED <<indexVars, viewVars>>
       ELSE \E ix \in {indexFile(idx, f, getFileCache(vault', f))} : onReady(ix)

\* vault "rename": f is the file under its new path
OnRename(oldPath, f) ==
  /\ oldPath \in DOMAIN vault
  /\ f \notin DOMAIN vault
  /\ vault' = [p \in (DOMAIN vault \ {oldPath}) \cup {f} |->
                 IF p = f THEN vault[oldPath] ELSE vault[p]]
  /\ UNCHANGED <<ready, asideVars, traceVars>>
  /\ Log("rename", oldPath, FALSE)
  /\ IF extension(f) # "md"
       THEN UNCHANGED <<indexVars, viewVars>>
       ELSE \E ix \in {indexFile(removeFile(idx, oldPath), f, getFileCache(vault', f))} : onReady(ix)

\* activateView: the leaf is created with the settings of the moment; onOpen
\* ends with refresh()
OpenView(kind, se, folders) ==
  /\ ~viewOpen
  /\ viewOpen' = TRUE
  /\ viewKind' = kind
  /\ startEmpty' = se
  /\ excludedFolders' = folders
  /\ lastEvent' = NoEvent
  /\ UNCHANGED <<vault, ready, selected, excluded, asideVars, traceVars>>
  /\ Refresh(idx, selected, excluded)

\* the onRefresh callback the FacetManager was built with: the refresh() of the
\* view, or, for a manager on its own ("manager"), a callback that records the
\* call and the facets it finds
onRefresh(op, tag, sel, exc) ==
  IF viewKind = "manager"
    THEN /\ refreshLog' = Refreshes(op, tag, 1, <<sel, exc>>)
         /\ UNCHANGED <<indexVars, currentFiles, coFreq, rows>>
    ELSE /\ Refresh(idx, sel, exc)
         /\ UNCHANGED refreshLog

\* a facet mutator that calls onRefresh before it assigns the facets
MutatedRefreshFirst(op, tag, sel, exc) ==
  /\ selected' = sel
  /\ excluded' = exc
  /\ UNCHANGED <<vault, ready, viewOpen, viewKind, startEmpty, excludedFolders,
                 asideVars, lastEvent>>
  /\ onRefresh(op, tag, selected, excluded)

\* a facet mutator that assigned the facets sel, exc and then called onRefresh
Mutated(op, tag, sel, exc) ==
  /\ selected' = sel
  /\ excluded' = exc
  /\ UNCHANGED <<vault, ready, viewOpen, viewKind, startEmpty, excludedFolders,
                 asideVars, lastEvent>>
  /\ onRefresh(op, tag, sel, exc)

\* a facet mutator that returned before it assigned or called anything
Returned(op, tag) ==
  /\ refreshLog' = IF viewKind = "manager"
                     THEN Refreshes(op, tag, 0, refreshLog.seen) ELSE refreshLog
  /\ UNCHANGED <<vault, indexVars, ready, viewVars, asideVars, lastEvent>>

addFacet(tag, includeDescendantsByDefault) ==
  /\ viewOpen
  /\ LET n == canon(viewKind, tag)
     IN  /\ has(selected, n) \/ Len(selected) < MaxSelected
         /\ IF n = <<>>
              THEN Returned("addFacet", tag)
              ELSE Mutated("addFacet", tag,
                           mapSet(selected, n,
                             addFacetMode(viewKind, n, includeDescendantsByDefault,
                                          allTags(idx))),
                           excluded)

addFacetExact(tag) ==
  /\ viewOpen
  /\ LET n == canon(viewKind, tag)
     IN  /\ has(selected, n) \/ Len(selected) < MaxSelected
         /\ IF n = <<>>
              THEN Returned("addFacetExact", tag)
              ELSE Mutated("addFacetExact", tag, mapSet(selected, n, "exact"), excluded)

removeFacet(tag) ==
  /\ viewOpen
  /\ Mutated("removeFacet", tag, mapDelete(selected, canon(viewKind, tag)), excluded)

\* a toggleFacetMode that selects a tag it does not find
toggleFacetModeOrAdd(tag) ==
  /\ viewOpen
  /\ LET n == canon(viewKind, tag)
     IN  Mutated("toggleFacetMode", tag,
                 mapSet(selected, n,
                   IF has(selected, n) /\ modeOf(selected, n) = "exact"
                     THEN subtreeMode(viewKind) ELSE "exact"),
                 excluded)

toggleFacetMode(tag) ==
  /\ viewOpen
  /\ LET n == canon(viewKind, tag)
     IN  IF ~has(selected, n)
           THEN Returned("toggleFacetMode", tag)
           ELSE Mutated("toggleFacetMode", tag,
                        mapSet(selected, n,
                          IF modeOf(selected, n) = "exact"
                            THEN subtreeMode(viewKind) ELSE "exact"),
                        excluded)

toggleExcluded(tag) ==
  /\ viewOpen
  /\ LET n == canon(viewKind, tag)
     IN  /\ n \in Range(excluded) \/ Len(excluded) < MaxExcluded
         /\ Mutated("toggleExcluded", tag, selected, toggleExcludedSet(excluded, n))

setFacets(tags, includeDescendantsByDefault) ==
  /\ viewOpen
  /\ Mutated("setFacets", <<>>,
             setFacetsMap(viewKind, tags, includeDescendantsByDefault), <<>>)

clearAll ==
  /\ viewOpen
  /\ Mutated("clearAll", <<>>, <<>>, <<>>)

(***************************************************************************)
(* Specifications.                                                         *)
(***************************************************************************)
\* the indexer under the watcher events, no view open
NextIndex ==
  \/ OnResolved
  \/ \E f \in Paths, c \in TagLists : OnChanged(f, c)
  \/ \E f \in Paths : OnDelete(f)
  \/ \E f \in Paths, c \in TagLists : OnCreate(f, c)
  \/ \E o \in Paths, f \in Paths : OnRename(o, f)

SpecIndex == Init /\ [][NextIndex]_vars

WatcherStep(lists) ==
  \/ OnResolved
  \/ \E f \in ViewPaths, c \in lists : OnChanged(f, c)
  \/ \E f \in ViewPaths : OnDelete(f)
  \/ \E f \in ViewPaths, c \in lists : OnCreate(f, c)
  \/ \E o \in ViewPaths, f \in ViewPaths : OnRename(o, f)

\* the mutators called from the chips, the search box and the commands
FacetOps(tags) ==
  \/ \E t \in tags, d \in BOOLEAN : addFacet(t, d)
  \/ \E t \in tags : addFacetExact(t)
  \/ \E t \in tags : removeFacet(t)
  \/ \E t \in tags : toggleFacetMode(t)
  \/ \E t \in tags : toggleExcluded(t)
  \/ \E l \in SavedLists, d \in BOOLEAN : setFacets(l, d)
  \/ clearAll

FacetStep == FacetOps(FacetInputs) /\ UNCHANGED gesture

\* the view of src/FacetNavigatorView.ts over the indexer
NextLegacy ==
  \/ \E se \in BOOLEAN : OpenView("legacy", se, {})
  \/ FacetStep
  \/ WatcherStep(LegacyTagLists)

SpecLegacy == Init /\ [][NextLegacy]_vars

\* the view built on the FacetManager over the indexer
NextFacets ==
  \/ \E se \in BOOLEAN, folders \in FolderSettings : OpenView("facets", se, folders)
  \/ FacetStep
  \/ WatcherStep(ViewTagLists)

SpecFacets == Init /\ [][NextFacets]_vars

\* new FacetManager(callbacks), with callbacks that record
NewManager ==
  /\ ~viewOpen
  /\ viewOpen' = TRUE
  /\ viewKind' = "manager"
  /\ UNCHANGED <<vault, indexVars, ready, selected, excluded, currentFiles, coFreq,
                 startEmpty, excludedFolders, rows, asideVars, lastEvent, traceVars>>

\* a FacetManager on its own under every call of its mutators
NextManager ==
  \/ NewManager
  \/ FacetOps(ManagerInputs) /\ UNCHANGED gesture

SpecManager == Init /\ [][NextManager]_vars

\* the plugin loaded in an empty vault and the view built on the FacetManager
\* opened: onOpen has refreshed
InitNotify ==
  /\ vault = [p \in {} |-> {}]
  /\ exactTagToFiles = EmptyMap
  /\ tagToFiles = EmptyMap
  /\ fileToExactTags = EmptyMap
  /\ ready = TRUE
  /\ viewOpen = TRUE
  /\ viewKind = "facets"
  /\ selected = <<>>
  /\ excluded = <<>>
  /\ currentFiles = {}
  /\ coFreq = EmptyMap
  /\ rows = EmptyMap
  /\ startEmpty = FALSE
  /\ excludedFolders = {}
  /\ safeRebuild = SafeRebuild(FALSE, "idle", {})
  /\ lastEvent = NoEvent
  /\ savedViews = <<>>
  /\ matchCall = NoCall
  /\ refreshLog = NoRefresh
  /\ gesture = NoGesture
  /\ Widgets
  /\ treeFreq = <<>>
  /\ treeRoots = NoTree
  /\ rawTag = <<>>
  /\ tagPath = <<>>
  /\ ancestors = <<>>

\* the watcher events on markdown and other files while the view is open
NextNotify ==
  \/ \E f \in Paths, c \in LegacyTagLists : OnChanged(f, c)
  \/ \E f \in Paths : OnDelete(f)
  \/ \E f \in Paths, c \in LegacyTagLists : OnCreate(f, c)
  \/ \E o \in Paths, f \in Paths : OnRename(o, f)
  \/ FacetStep

SpecNotify == InitNotify /\ [][NextNotify]_vars

\* a SavedView: exclude is <<>> for undefined, <<the array>> otherwise
SavedView(name, tags, exclude) == [name |-> name, tags |-> tags, exclude |-> exclude]

\* the names the user types into the InputModal
ViewNames == { "v1", "v2" }

\* the callback of the InputModal of saveView: an existing record gets the tags,
\* and the excluded tags if there are any; otherwise a record is pushed
saveViewAs(views, name, sel, exc) ==
  IF \E i \in 1..Len(views) : views[i].name = name
    THEN [i \in 1..Len(views) |->
            IF views[i].name = name
              THEN SavedView(name, keys(sel),
                             IF exc # <<>> THEN <<exc>> ELSE views[i].exclude)
              ELSE views[i]]
    ELSE Append(views, SavedView(name, keys(sel), IF exc # <<>> THEN <<exc>> ELSE <<>>))

\* saveView, the name confirmed: "Select at least one tag." without a selection
SaveView(name) ==
  /\ viewOpen
  /\ savedViews' = IF selected = <<>> THEN savedViews
                   ELSE saveViewAs(savedViews, name, selected, excluded)
  /\ UNCHANGED <<vault, indexVars, ready, viewVars, treeVars, tagPathVars, safeRebuild,
                 lastEvent, matchCall, traceVars, widgetVars>>

\* the command "Open saved view", a name picked: activateView(sv.tags) finds the
\* leaf and hands the tags to setFacets
OpenSavedView(name, includeDescendantsByDefault) ==
  /\ \E i \in 1..Len(savedViews) :
        /\ savedViews[i].name = name
        /\ setFacets(savedViews[i].tags, includeDescendantsByDefault)
  /\ UNCHANGED gesture

\* the view built on the FacetManager and its saved views
NextSaved ==
  \/ OpenView("facets", FALSE, {})
  \/ FacetStep
  \/ \E name \in ViewNames : SaveView(name)
  \/ \E name \in ViewNames, d \in BOOLEAN : OpenSavedView(name, d)

SpecSaved == Init /\ [][NextSaved]_vars

\* what the notes of the vault carry when the panel is clicked: rows "a" and
\* "a/b" are expandable when a tag below them is a co-tag
ClickTagLists ==
  { {}, {<<"a", "/", "b">>}, {<<"a", "/", "b", "/", "c">>},
    {<<"#", "A">>, <<"a", "/", "b", "/", "c">>} }

\* the view of src/FacetNavigatorView.ts open over an indexed vault: onOpen has
\* refreshed and rendered the rows
InitClick ==
  /\ vault \in [{N1, N2} -> ClickTagLists]
  /\ \E ix \in {rebuild(EmptyIndex, vault)} :
        /\ exactTagToFiles = ix.exactTagToFiles
        /\ tagToFiles = ix.tagToFiles
        /\ fileToExactTags = ix.fileToExactTags
        /\ \E r \in {refresh("legacy", ix, vault, <<>>, <<>>, FALSE, {})} :
              /\ currentFiles = r.currentFiles
              /\ \E freq \in {renderCoTags("legacy", r.index, r.currentFiles, <<>>, <<>>)} :
                    /\ coFreq = freq
                    /\ rows = renderRows("legacy", freq, <<>>, <<>>)
  /\ ready = TRUE
  /\ viewOpen = TRUE
  /\ viewKind = "legacy"
  /\ selected = <<>>
  /\ excluded = <<>>
  /\ startEmpty = FALSE
  /\ excludedFolders = {}
  /\ safeRebuild = SafeRebuild(FALSE, "idle", {})
  /\ lastEvent = NoEvent
  /\ savedViews = <<>>
  /\ matchCall = NoCall
  /\ refreshLog = NoRefresh
  /\ gesture = NoGesture
  /\ Widgets
  /\ treeFreq = <<>>
  /\ treeRoots = NoTree
  /\ rawTag = <<>>
  /\ tagPath = <<>>
  /\ ancestors = <<>>

\* the rows the pointer may be on
RowTags == { <<"a">>, <<"a", "/", "b">> }

\* no gesture is under way: none begun, or the last one is over
betweenGestures == gesture.phase \in {"idle", "single", "double"}

\* the "click" listener of an expandable row: a pending timer is cleared and
\* nothing else happens, otherwise the 200 ms timer is started. The click begins
\* a gesture, or is the second click of the one under way on this row.
Click(tag) ==
  /\ viewOpen
  /\ tag \in DOMAIN rows
  /\ betweenGestures \/ (gesture.phase = "click" /\ gesture.tag = tag)
  /\ rows' = [rows EXCEPT ![tag].clickTimeout =
                 IF rows[tag].clickTimeout THEN FALSE ELSE TRUE]
  /\ gesture' = IF betweenGestures THEN Gesture("click", tag, 0, 0)
                 ELSE [gesture EXCEPT !.phase = "clicks"]
  /\ UNCHANGED <<vault, indexVars, ready, viewOpen, viewKind, selected, excluded,
                 currentFiles, coFreq, startEmpty, excludedFolders, asideVars,
                 lastEvent, refreshLog>>

\* the 200 ms timer of a row fires: clickTimeout = null; toggleExpand(). The
\* second click and the dblclick of one release are dispatched together, so no
\* timer fires between them.
TimerFires(tag) ==
  /\ tag \in DOMAIN rows
  /\ rows[tag].clickTimeout
  /\ gesture.phase = "click"
  /\ rows' = [rows EXCEPT ![tag] = Row(FALSE, ~rows[tag].expanded)]
  /\ gesture' = [gesture EXCEPT !.toggles = @ + 1]
  /\ UNCHANGED <<vault, indexVars, ready, viewOpen, viewKind, selected, excluded,
                 currentFiles, coFreq, startEmpty, excludedFolders, asideVars,
                 lastEvent, refreshLog>>

\* the "dblclick" listener of the row of the gesture: a pending timer is
\* cleared and addFacet(node.full) selects the tag and refreshes, which renders
\* the rows anew
DblClick(includeDescendantsByDefault) ==
  /\ gesture.phase = "clicks"
  /\ gesture.tag \in DOMAIN rows
  /\ addFacet(gesture.tag, includeDescendantsByDefault)
  /\ gesture' = [gesture EXCEPT !.phase = "double", !.adds = @ + 1]

\* the double-click interval of the platform has passed after a click whose
\* timer has fired: the click was a lone one
LoneClick ==
  /\ gesture.phase = "click"
  /\ gesture.tag \in DOMAIN rows
  /\ ~rows[gesture.tag].clickTimeout
  /\ gesture' = [gesture EXCEPT !.phase = "single"]
  /\ UNCHANGED <<vault, indexVars, ready, viewVars, asideVars, lastEvent, refreshLog>>

\* clicks and double-clicks on the expandable rows of the co-tag panel, and the
\* facet operations of the chips between two gestures
NextClick ==
  \/ \E tag \in RowTags : Click(tag)
  \/ \E tag \in RowTags : TimerFires(tag)
  \/ \E d \in BOOLEAN : DblClick(d)
  \/ LoneClick
  \/ betweenGestures /\ FacetOps(FacetInputs) /\ gesture' = NoGesture

SpecClick == InitClick /\ [][NextClick]_vars

\* the view built on the FacetManager open over an indexed vault: onOpen has
\* refreshed
InitSelect ==
  /\ vault \in [{N1, N2} -> ClickTagLists]
  /\ \E ix \in {rebuild(EmptyIndex, vault)} :
        /\ exactTagToFiles = ix.exactTagToFiles
        /\ tagToFiles = ix.tagToFiles
        /\ fileToExactTags = ix.fileToExactTags
        /\ \E r \in {refresh("facets", ix, vault, <<>>, <<>>, FALSE, {})} :
              /\ currentFiles = r.currentFiles
              /\ coFreq = renderCoTags("facets", r.index, r.currentFiles, <<>>, <<>>)
  /\ rows = EmptyMap
  /\ ready = TRUE
  /\ viewOpen = TRUE
  /\ viewKind = "facets"
  /\ selected = <<>>
  /\ excluded = <<>>
  /\ startEmpty = FALSE
  /\ excludedFolders = {}
  /\ safeRebuild = SafeRebuild(FALSE, "idle", {})
  /\ lastEvent = NoEvent
  /\ savedViews = <<>>
  /\ matchCall = NoCall
  /\ refreshLog = NoRefresh
  /\ gesture = NoGesture
  /\ Widgets
  /\ treeFreq = <<>>
  /\ treeRoots = NoTree
  /\ rawTag = <<>>
  /\ tagPath = <<>>
  /\ ancestors = <<>>

\* the nodes of the co-tag tree: the co-tags and their prefixes
treeTags(freq) == DOMAIN freq \cup expandableTags(freq)

\* a node of the co-tag tree is selected, by double-click or click on its label
\* or by Enter on the focused row: a node with children goes to
\* addFacet(tag, settings.includeDescendantsByDefault, hasTagChildren), a leaf
\* to addFacetExact(tag)
SelectTag(tag, includeDescendantsByDefault) ==
  /\ viewKind = "facets"
  /\ tag \in treeTags(coFreq)
  /\ IF tag \in expandableTags(coFreq)
       THEN addFacet(tag, includeDescendantsByDefault)
       ELSE addFacetExact(tag)
  /\ UNCHANGED gesture

\* the tags of the rows the user may select
SelectTags == { <<"a">>, <<"a", "/", "b">>, <<"a", "/", "b", "/", "c">> }

\* co-tags are selected in the panel, facets are changed on the chips
NextSelect ==
  \/ \E tag \in SelectTags, d \in BOOLEAN : SelectTag(tag, d)
  \/ FacetStep

SpecSelect == InitSelect /\ [][NextSelect]_vars

(***************************************************************************)
(* The co-tag panel of the view built on the FacetManager: the             *)
(* ExpansionManager, TagRenderer.renderCoTags and the KeyboardNavigator.   *)
(***************************************************************************)
\* String.includes
includes(s, q) == \E i \in 0..(Len(s) - Len(q)) : SubSeq(s, i + 1, i + Len(q)) = q

\* the characters of the labels, in the order of localeCompare
Collation == <<"-", "a", "b", "c">>

rank(c) == CHOOSE i \in 1..Len(Collation) : Collation[i] = c

RECURSIVE localeCompare(_, _)
\* a.localeCompare(b): -1, 0 or 1
localeCompare(a, b) ==
  IF a = <<>> THEN (IF b = <<>> THEN 0 ELSE -1)
  ELSE IF b = <<>> THEN 1
  ELSE IF rank(Head(a)) < rank(Head(b)) THEN -1
  ELSE IF rank(Head(a)) > rank(Head(b)) THEN 1
  ELSE localeCompare(Tail(a), Tail(b))

\* the comparator of utils.sortNodes: negative when a sorts before b
compareNodes(mode, a, b) ==
  IF mode = "alpha" THEN localeCompare(a.label, b.label)
  ELSE IF b.count - a.count # 0 THEN b.count - a.count
  ELSE localeCompare(a.label, b.label)

RECURSIVE sortNodes(_, _, _)
\* utils.sortNodes over the nodes ks of a tree, as the sequence of their keys
\* (siblings bear different labels, so the comparator leaves no ties)
sortNodes(nodes, ks, mode) ==
  IF ks = {} THEN <<>>
  ELSE LET first == CHOOSE k \in ks :
                      \A j \in ks \ {k} : compareNodes(mode, nodes[k], nodes[j]) <= 0
       IN  <<first>> \o sortNodes(nodes, ks \ {first}, mode)

rootsOf(nodes) == { k \in DOMAIN nodes : nodes[k].parent = NoParent }

kidsOf(nodes, k) == { c \in DOMAIN nodes : nodes[c].parent = <<k>> }

RECURSIVE walkRows(_, _, _, _)
\* the rows below the nodes ks, in order: a node, then, when it has children and
\* is expanded, its children in the order of sortNodes(children, childSort)
walkRows(nodes, expanded, ks, childSort) ==
  IF ks = <<>> THEN <<>>
  ELSE LET k == Head(ks)
           below == IF kidsOf(nodes, k) # {} /\ expanded[k]
                      THEN walkRows(nodes, expanded,
                                    sortNodes(nodes, kidsOf(nodes, k), childSort), childSort)
                      ELSE <<>>
       IN  <<k>> \o below \o walkRows(nodes, expanded, Tail(ks), childSort)

\* the rows renderTreeNode creates for the sorted roots: it sorts the children
\* of every node with sortNodes(node.children.values(), "count")
renderTreeNodes(nodes, expanded, coTagSort) ==
  walkRows(nodes, expanded, sortNodes(nodes, rootsOf(nodes), coTagSort), "count")

\* collectVisibleTags over the sorted roots: it sorts the children with
\* sortNodes(node.children.values(), coTagSort)
collectVisibleTags(nodes, expanded, coTagSort) ==
  walkRows(nodes, expanded, sortNodes(nodes, rootsOf(nodes), coTagSort), coTagSort)

Restored(manager, expanded) == [manager |-> manager, expanded |-> expanded]

RECURSIVE restoreNodes(_, _, _, _)
\* restoreNode for every node of ks: expanded collects node.expanded
restoreNodes(em, expanded, ks, isSearching) ==
  IF ks = {} THEN Restored(em, expanded)
  ELSE LET full == CHOOSE k \in ks : TRUE
           known == full \in DOMAIN em.expansionState
           held == full \in DOMAIN em.preSearchState
           next ==
             IF isSearching
               THEN Restored(
                      IF held THEN em
                      ELSE [em EXCEPT !.preSearchState =
                              MapSet(@, full, IF known THEN em.expansionState[full]
                                              ELSE FALSE)],
                      TRUE)
             ELSE IF held
               THEN Restored(Expansion(MapSet(em.expansionState, full,
                                              em.preSearchState[full]),
                                       MapDelete(em.preSearchState, full)),
                             em.preSearchState[full])
             ELSE IF known
               THEN Restored(em, em.expansionState[full])
             ELSE Restored([em EXCEPT !.expansionState = MapSet(@, full, FALSE)], FALSE)
       IN  restoreNodes(next.manager, MapSet(expanded, full, next.expanded),
                        ks \ {full}, isSearching)

\* ExpansionManager.restoreExpansionState(treeRoots, searchQuery); every node is
\* keyed by node.full
restoreExpansionState(em, nodes, searchQuery) ==
  restoreNodes(em, EmptyMap, { nodes[k].full : k \in DOMAIN nodes }, searchQuery # <<>>)

\* what TagRenderer.renderCoTags leaves: manager, the ExpansionManager; nodes,
\* the tree; expanded, node.expanded of every node; rows, the rows in the order
\* of the screen; visible, the list it returns
Rendered(manager, nodes, expanded, shown, visible) ==
  [manager |-> manager, nodes |-> nodes, expanded |-> expanded, rows |-> shown,
   visible |-> visible]

\* the entries of coFreq whose tag includes the search query
filteredFreq(entries, searchQuery) ==
  IF searchQuery = <<>> THEN entries
  ELSE SelectSeq(entries, LAMBDA e : includes(toLowerCase(e.tag), toLowerCase(searchQuery)))

\* TagRenderer.renderCoTags(container, coFreq, searchQuery, expansionManager,
\* coTagSort)
TagRenderer_renderCoTags(entries, searchQuery, em, coTagSort) ==
  IF filteredFreq(entries, searchQuery) = <<>>
    THEN Rendered(em, EmptyMap, EmptyMap, <<>>, <<>>)
    ELSE LET nodes == TagRenderer_buildTagTree(filteredFreq(entries, searchQuery))
             restored == restoreExpansionState(em, nodes, searchQuery)
         IN  Rendered(restored.manager, nodes, restored.expanded,
                      renderTreeNodes(nodes, restored.expanded, coTagSort),
                      collectVisibleTags(nodes, restored.expanded, coTagSort))

\* what the handlers of the panel never touch. The facets, the index and the
\* result set are not followed while the panel is: the co-tag frequencies and
\* the number of results of every refresh are inputs.
offPanel ==
  <<vault, indexVars, ready, selected, excluded, currentFiles, coFreq, startEmpty,
    excludedFolders, rows, treeVars, tagPathVars, safeRebuild, savedViews, matchCall,
    lastEvent, traceVars>>

panelOpen == viewOpen /\ viewKind = "panel"

\* the tree of the last render
panelNodes == TagRenderer_buildTagTree(filteredFreq(tagPanel.coFreq, tagPanel.searchQuery))

\* KeyboardNavigator.setVisibleTags
setVisibleTags(nav, tags) == [nav EXCEPT !.allVisibleTags = tags]

\* view.renderCoTags has run and left r: the list it returns goes to
\* setVisibleTags, which nav shows done
Painted(r, entries, searchQuery, toggled, nav) ==
  /\ expansionManager' = r.manager
  /\ tagPanel' = TagPanel(entries, searchQuery, tagPanel.coTagSort, r.expanded, r.rows,
                          toggled)
  /\ keyboardNavigator' = nav

\* view.renderCoTags on the co-tag frequencies entries, and nothing else
Repaint(em, entries, searchQuery, toggled) ==
  \E r \in {TagRenderer_renderCoTags(entries, searchQuery, em, tagPanel.coTagSort)} :
     Painted(r, entries, searchQuery, toggled, setVisibleTags(keyboardNavigator, r.visible))

\* onOpen: the first refresh() renders the panel under settings.coTagSort
OpenPanel(coTagSort, entries, resultItems) ==
  /\ ~viewOpen
  /\ viewOpen' = TRUE
  /\ viewKind' = "panel"
  /\ \E r \in {TagRenderer_renderCoTags(entries, <<>>, expansionManager, coTagSort)} :
        /\ expansionManager' = r.manager
        /\ tagPanel' = TagPanel(entries, <<>>, coTagSort, r.expanded, r.rows, EmptyMap)
        /\ keyboardNavigator' = setVisibleTags(keyboardNavigator, r.visible)
  /\ navPanel' = [navPanel EXCEPT !.resultItems = resultItems]
  /\ UNCHANGED offPanel

\* the index has changed and onReady() refreshes the view: the panel is
\* rendered on the new co-tag frequencies, the results on the new result set
Reindexed(entries, resultItems) ==
  /\ panelOpen
  /\ Repaint(expansionManager, entries, tagPanel.searchQuery, tagPanel.toggled)
  /\ navPanel' = [navPanel EXCEPT !.resultItems = resultItems]
  /\ UNCHANGED <<viewOpen, viewKind, offPanel>>

\* an "input" event of the search box with a query that is no slash command:
\* filterCoTags(query.toLowerCase()). The keydown before it reaches
\* handleSearchKeyDown only in search mode.
SearchInput(query) ==
  /\ panelOpen
  /\ navPanel.searchInput = ""
  /\ \E r \in {TagRenderer_renderCoTags(tagPanel.coFreq, toLowerCase(query),
                                         expansionManager, tagPanel.coTagSort)} :
        Painted(r, tagPanel.coFreq, toLowerCase(query), tagPanel.toggled,
                setVisibleTags(
                  IF keyboardNavigator.focusMode = "search"
                    THEN [keyboardNavigator EXCEPT !.lastInteractionType = "search"]
                    ELSE keyboardNavigator,
                  r.visible))
  /\ UNCHANGED <<viewOpen, viewKind, navPanel, offPanel>>

\* ExpansionManager.saveExpansionState(node)
saveExpansionState(em, full, expanded) ==
  [em EXCEPT !.expansionState = MapSet(@, full, expanded)]

\* a click on the caret of the row of tag: node.expanded is flipped, then
\* onToggleExpansion saves it and renders the panel
ToggleExpansion(tag) ==
  /\ panelOpen
  /\ tag \in Range(tagPanel.rows)
  /\ kidsOf(panelNodes, tag) # {}
  /\ Repaint(saveExpansionState(expansionManager, tag, ~tagPanel.expanded[tag]),
             tagPanel.coFreq, tagPanel.searchQuery,
             MapSet(tagPanel.toggled, tag, ~tagPanel.expanded[tag]))
  /\ UNCHANGED <<viewOpen, viewKind, navPanel, offPanel>>

\* ExpansionManager.expandAll and collapseAll
setAll(em, expanded) ==
  [em EXCEPT !.expansionState = [t \in DOMAIN em.expansionState |-> expanded]]

\* expandAllTags (expanded) and collapseAllTags (not expanded): the search is
\* cleared and the panel rendered
ExpandOrCollapseAllTags(expanded) ==
  /\ panelOpen
  /\ Repaint(setAll(expansionManager, expanded), tagPanel.coFreq, <<>>, EmptyMap)
  /\ navPanel' = [navPanel EXCEPT !.searchInput = ""]
  /\ UNCHANGED <<viewOpen, viewKind, offPanel>>

\* ExpansionManager.isMostlyExpanded
isMostlyExpanded(em) ==
  2 * Cardinality({ t \in DOMAIN em.expansionState : em.expansionState[t] })
    > Cardinality(DOMAIN em.expansionState)

\* the button of the controls: toggleAllExpansion keeps the search
ToggleAllExpansion ==
  /\ panelOpen
  /\ Repaint(setAll(expansionManager, ~isMostlyExpanded(expansionManager)),
             tagPanel.coFreq, tagPanel.searchQuery, EmptyMap)
  /\ UNCHANGED <<viewOpen, viewKind, navPanel, offPanel>>

\* clearAll of the view: facetManager.clearAll() refreshes; then the search and
\* the ExpansionManager are cleared and refresh() renders again, on the
\* frequencies of the cleared selection
ClearPanel(entries, resultItems) ==
  /\ panelOpen
  /\ \E first \in {TagRenderer_renderCoTags(entries, tagPanel.searchQuery,
                                             expansionManager, tagPanel.coTagSort)} :
        Repaint(Expansion(EmptyMap, EmptyMap), entries, <<>>, EmptyMap)
  /\ navPanel' = [navPanel EXCEPT !.resultItems = resultItems, !.searchInput = ""]
  /\ UNCHANGED <<viewOpen, viewKind, offPanel>>

\* the tags of the rows
PanelTags == { <<"a">>, <<"a", "/", "b">>, <<"a", "/", "c">>, <<"b">> }

\* the co-tag frequencies a refresh may find
PanelFreqs ==
  { <<>>,
    <<Entry(<<"a", "/", "b">>, 1)>>,
    <<Entry(<<"a", "/", "b">>, 1), Entry(<<"b">>, 1)>> }

\* what the user types into the search box
Queries == { <<>>, <<"B">> }

MaxResults == 1

\* the ExpansionManager under searches, toggles and refreshes
NextExpansion ==
  \/ \E entries \in PanelFreqs, n \in 0..MaxResults : OpenPanel("count", entries, n)
  \/ \E entries \in PanelFreqs, n \in 0..MaxResults : Reindexed(entries, n)
  \/ \E query \in Queries : SearchInput(query)
  \/ \E tag \in PanelTags : ToggleExpansion(tag)
  \/ \E expanded \in BOOLEAN : ExpandOrCollapseAllTags(expanded)
  \/ ToggleAllExpansion
  \/ \E entries \in PanelFreqs, n \in 0..MaxResults : ClearPanel(entries, n)

SpecExpansion == Init /\ [][NextExpansion]_vars

\* co-tag frequencies with siblings whose order by count is not their order by
\* label
SiblingFreqs ==
  { <<Entry(<<"a", "/", "b">>, 1), Entry(<<"a", "/", "c">>, 2)>>,
    <<Entry(<<"a", "/", "b">>, 2), Entry(<<"a", "/", "c">>, 1), Entry(<<"b">>, 1)>>,
    <<Entry(<<"b">>, 1), Entry(<<"c">>, 2)>> }

\* the rows of the panel and the list of the navigator under both settings of
\* coTagSort
NextRows ==
  \/ \E coTagSort \in {"count", "alpha"}, entries \in SiblingFreqs, n \in 0..MaxResults :
        OpenPanel(coTagSort, entries, n)
  \/ \E entries \in SiblingFreqs, n \in 0..MaxResults : Reindexed(entries, n)
  \/ \E query \in Queries : SearchInput(query)
  \/ \E tag \in PanelTags : ToggleExpansion(tag)
  \/ \E expanded \in BOOLEAN : ExpandOrCollapseAllTags(expanded)

SpecRows == Init /\ [][NextRows]_vars

(***************************************************************************)
(* KeyboardNavigator and the keyboard callbacks of the view.  The keydown  *)
(* listener sits on the root element and the navigator never moves the DOM *)
(* focus out of the search box, so e.target is the search input.           *)
(***************************************************************************)
\* KeyboardNavigator.focusSearch
focusSearch(nav) ==
  [nav EXCEPT !.focusMode = "search", !.focusedTagIndex = -1, !.focusedResultIndex = -1]

\* KeyboardNavigator.focusFirstTag
focusFirstTag(nav) ==
  [nav EXCEPT !.focusMode = "tags", !.focusedTagIndex = 0, !.focusedResultIndex = -1]

\* focusResults that keeps the tag index
focusResultsKeepsTag(nav) ==
  [nav EXCEPT !.focusMode = "results", !.focusedResultIndex = 0]

\* KeyboardNavigator.focusResults
focusResults(nav) ==
  [nav EXCEPT !.focusMode = "results", !.focusedTagIndex = -1, !.focusedResultIndex = 0]

Min(x, y) == IF x < y THEN x ELSE y

Max(x, y) == IF x > y THEN x ELSE y

\* KeyboardNavigator.focusNextTag
focusNextTag(nav) ==
  IF nav.allVisibleTags = <<>> THEN nav
  ELSE [nav EXCEPT !.focusedTagIndex = Min(@ + 1, Len(nav.allVisibleTags) - 1)]

\* KeyboardNavigator.focusPreviousTag
focusPreviousTag(nav) ==
  IF nav.allVisibleTags = <<>> THEN nav
  ELSE [nav EXCEPT !.focusedTagIndex = Max(@ - 1, 0)]

\* KeyboardNavigator.focusNextResult(maxResults)
focusNextResult(nav, maxResults) ==
  IF maxResults = 0 THEN nav
  ELSE [nav EXCEPT !.focusedResultIndex = Min(@ + 1, maxResults - 1)]

\* KeyboardNavigator.focusPreviousResult
focusPreviousResult(nav) == [nav EXCEPT !.focusedResultIndex = Max(@ - 1, 0)]

\* KeyboardNavigator.getCurrentFocusedTag: <<node.full>>, or <<>> for null
getCurrentFocusedTag(nav) ==
  IF nav.focusedTagIndex >= 0 /\ nav.focusedTagIndex < Len(nav.allVisibleTags)
    THEN <<nav.allVisibleTags[nav.focusedTagIndex + 1]>>
    ELSE <<>>

\* allVisibleTags.findIndex(tag => tag.full === full)
findIndex(tags, full) ==
  IF full \in Range(tags)
    THEN (CHOOSE i \in 1..Len(tags) :
            tags[i] = full /\ \A j \in 1..(i - 1) : tags[j] # full) - 1
    ELSE -1

\* restoreFocusAfterSelection(previousFocusTag, previousFocusIndex) of the view
restoreFocusAfterSelection(nav, previousFocusTag, previousFocusIndex) ==
  [nav EXCEPT !.focusedTagIndex =
     IF findIndex(nav.allVisibleTags, previousFocusTag) >= 0
       THEN findIndex(nav.allVisibleTags, previousFocusTag)
     ELSE IF nav.allVisibleTags # <<>>
       THEN Min(previousFocusIndex, Len(nav.allVisibleTags) - 1)
     ELSE -1]

\* the keys: "Char" is a printable character other than "/"
Keys ==
  { "Tab", "Enter", "Escape", "ArrowUp", "ArrowDown", "ArrowLeft", "ArrowRight",
    "/", "Backspace", "Char" }

\* the slash commands in the search box: "/?" is any text that starts with "/"
\* and is none of the others
SlashTexts == { "/", "/?", "/clear", "/expand", "/collapse" }

\* SlashCommandHandler.isTypingSlashCommand(searchInput)
isTypingSlashCommand == navPanel.searchInput # ""

\* the callback handleKeyDown ends in
route(nav, key, shiftKey) ==
  IF key = "/" /\ nav.focusMode # "search" THEN "onSlashCommandStart"
  ELSE IF isTypingSlashCommand /\ key \in {"Enter", "Escape", "Backspace", "/", "Char"}
    THEN "handleTyping"
  ELSE IF nav.focusMode = "search"
    THEN CASE key = "Tab" -> IF shiftKey THEN "onFocusResults" ELSE "onFocusFirstTag"
           [] key = "Enter" -> "onSearchEnter"
           [] key = "Escape" -> "blur"
           [] OTHER -> "none"
  ELSE IF nav.focusMode = "tags"
    THEN CASE key = "Tab" -> IF shiftKey THEN "onFocusSearch" ELSE "onFocusResults"
           [] key = "ArrowUp" -> "onFocusPreviousTag"
           [] key = "ArrowDown" -> "onFocusNextTag"
           [] key = "ArrowLeft" -> "onCollapseCurrentTag"
           [] key = "ArrowRight" -> "onExpandCurrentTag"
           [] key = "Enter" ->
                IF shiftKey THEN "onExcludeCurrentTag"
                ELSE IF nav.lastInteractionType = "navigation" THEN "onSelectCurrentTag"
                ELSE "onSearchEnter"
           [] key = "Escape" -> "onFocusSearch"
           [] OTHER -> "none"
  ELSE CASE key = "Tab" -> IF shiftKey THEN "onFocusFirstTag" ELSE "onFocusSearch"
         [] key = "ArrowUp" -> "onFocusPreviousResult"
         [] key = "ArrowDown" -> "onFocusNextResult"
         [] key = "Enter" -> IF shiftKey THEN "none" ELSE "onOpenCurrentResult"
         [] key = "Escape" -> "onFocusSearch"
         [] OTHER -> "none"

\* lastInteractionType as the handler of the focus mode sets it before it calls
\* back
interaction(nav, key) ==
  IF nav.focusMode = "search"
    THEN (IF key = "Tab" THEN "navigation" ELSE "search")
  ELSE IF nav.focusMode = "tags"
    THEN (IF key \in {"Tab", "ArrowUp", "ArrowDown", "ArrowLeft", "ArrowRight"}
            THEN "navigation" ELSE nav.lastInteractionType)
  ELSE (IF key \in {"Tab", "ArrowUp", "ArrowDown", "Enter"}
          THEN "navigation" ELSE nav.lastInteractionType)

\* the navigator when the handler of the focus mode calls back
handled(nav, key, shiftKey) ==
  IF route(nav, key, shiftKey) \in {"onSlashCommandStart", "handleTyping"} THEN nav
  ELSE [nav EXCEPT !.lastInteractionType = interaction(nav, key)]

\* the callbacks that only move the focus
moved(nav, callback) ==
  CASE callback = "onFocusSearch" -> focusSearch(nav)
    [] callback = "onFocusFirstTag" -> focusFirstTag(nav)
    [] callback = "onFocusResults" -> focusResults(nav)
    [] callback = "onFocusNextTag" -> focusNextTag(nav)
    [] callback = "onFocusPreviousTag" -> focusPreviousTag(nav)
    [] callback = "onFocusNextResult" -> focusNextResult(nav, navPanel.resultItems)
    [] callback = "onFocusPreviousResult" -> focusPreviousResult(nav)
    [] OTHER -> nav

\* KeyboardNavigator.handleKeyDown(e, callbacks) for a key that moves the focus
\* or does nothing: Tab, Escape, the arrows up and down, Enter on a result
KeyDown(key, shiftKey) ==
  /\ panelOpen
  /\ key \in {"Char", "Backspace"} => isTypingSlashCommand
  /\ route(keyboardNavigator, key, shiftKey) \in
       { "onFocusSearch", "onFocusFirstTag", "onFocusResults", "onFocusNextTag",
         "onFocusPreviousTag", "onFocusNextResult", "onFocusPreviousResult",
         "onOpenCurrentResult", "blur", "none" }
  /\ keyboardNavigator' = moved(handled(keyboardNavigator, key, shiftKey),
                                route(keyboardNavigator, key, shiftKey))
  /\ UNCHANGED <<viewOpen, viewKind, navPanel, expansionManager, tagPanel, offPanel>>

\* "/" outside the search mode: startSlashCommand(searchInput)
SlashCommandStart ==
  /\ panelOpen
  /\ route(keyboardNavigator, "/", FALSE) = "onSlashCommandStart"
  /\ navPanel' = [navPanel EXCEPT !.searchInput = "/"]
  /\ UNCHANGED <<viewOpen, viewKind, keyboardNavigator, expansionManager, tagPanel,
                 offPanel>>

\* "/" in the empty search box in search mode: handleSearchKeyDown, then the
\* "input" listener finds a slash command and filters with ''
SlashTyped ==
  /\ panelOpen
  /\ ~isTypingSlashCommand
  /\ keyboardNavigator.focusMode = "search"
  /\ \E r \in {TagRenderer_renderCoTags(tagPanel.coFreq, <<>>, expansionManager,
                                         tagPanel.coTagSort)} :
        Painted(r, tagPanel.coFreq, <<>>, tagPanel.toggled,
                setVisibleTags(handled(keyboardNavigator, "/", FALSE), r.visible))
  /\ navPanel' = [navPanel EXCEPT !.searchInput = "/"]
  /\ UNCHANGED <<viewOpen, viewKind, offPanel>>

\* the value of the search box after a printable key (more) or Backspace
typedOver(text, more) ==
  IF more
    THEN (IF text = "/" THEN {"/?"}
          ELSE IF text = "/?" THEN {"/?", "/clear", "/expand", "/collapse"}
          ELSE {"/?"})
    ELSE (IF text = "/" THEN {""}
          ELSE IF text = "/?" THEN {"/", "/?"}
          ELSE {"/?"})

\* SlashCommandHandler.handleTyping for a printable key, Backspace and Escape:
\* only the value of the search box changes
Typing(key) ==
  /\ panelOpen
  /\ key \in {"Char", "/", "Backspace", "Escape"}
  /\ route(keyboardNavigator, key, FALSE) = "handleTyping"
  /\ \E text \in (IF key = "Escape" THEN {""}
                  ELSE typedOver(navPanel.searchInput, key # "Backspace")) :
        navPanel' = [navPanel EXCEPT !.searchInput = text]
  /\ UNCHANGED <<viewOpen, viewKind, keyboardNavigator, expansionManager, tagPanel,
                 offPanel>>

\* handleTyping for Enter: SlashCommandHandler.handleSlashCommand runs /clear,
\* /expand or /collapse and answers every other text with a Notice
TypingEnter(entries, resultItems) ==
  /\ panelOpen
  /\ route(keyboardNavigator, "Enter", FALSE) = "handleTyping"
  /\ CASE navPanel.searchInput = "/clear" ->
            /\ Repaint(Expansion(EmptyMap, EmptyMap), entries, <<>>, EmptyMap)
            /\ navPanel' = [navPanel EXCEPT !.resultItems = resultItems,
                                            !.searchInput = ""]
       [] navPanel.searchInput \in {"/expand", "/collapse"} ->
            /\ Repaint(setAll(expansionManager, navPanel.searchInput = "/expand"),
                       tagPanel.coFreq, <<>>, EmptyMap)
            /\ navPanel' = [navPanel EXCEPT !.searchInput = ""]
       [] OTHER ->
            UNCHANGED <<keyboardNavigator, navPanel, expansionManager, tagPanel>>
  /\ UNCHANGED <<viewOpen, viewKind, offPanel>>

\* expandCurrentTag (expanded) and collapseCurrentTag (not expanded) on
\* ArrowRight and ArrowLeft
ExpandOrCollapseCurrentTag(expanded) ==
  /\ panelOpen
  /\ route(keyboardNavigator, IF expanded THEN "ArrowRight" ELSE "ArrowLeft", FALSE)
       = (IF expanded THEN "onExpandCurrentTag" ELSE "onCollapseCurrentTag")
  /\ \E nav \in {handled(keyboardNavigator, "ArrowRight", FALSE)} :
       IF /\ getCurrentFocusedTag(nav) # <<>>
          /\ getCurrentFocusedTag(nav)[1] \in DOMAIN tagPanel.expanded
          /\ kidsOf(panelNodes, getCurrentFocusedTag(nav)[1]) # {}
          /\ tagPanel.expanded[getCurrentFocusedTag(nav)[1]] # expanded
         THEN \E r \in {TagRenderer_renderCoTags(
                          tagPanel.coFreq, tagPanel.searchQuery,
                          saveExpansionState(expansionManager,
                                             getCurrentFocusedTag(nav)[1], expanded),
                          tagPanel.coTagSort)} :
                 Painted(r, tagPanel.coFreq, tagPanel.searchQuery,
                         MapSet(tagPanel.toggled, getCurrentFocusedTag(nav)[1], expanded),
                         setVisibleTags(nav, r.visible))
         ELSE /\ keyboardNavigator' = nav
              /\ UNCHANGED <<expansionManager, tagPanel>>
  /\ UNCHANGED <<viewOpen, viewKind, navPanel, offPanel>>

\* a facet is added or an exclusion toggled: onClearSearch, then onRefresh
\* renders the panel on the co-tag frequencies of the new selection
FacetChanged(nav, entries, resultItems, timers) ==
  /\ \E r \in {TagRenderer_renderCoTags(entries, <<>>, expansionManager,
                                         tagPanel.coTagSort)} :
        Painted(r, entries, <<>>, tagPanel.toggled, setVisibleTags(nav, r.visible))
  /\ navPanel' = NavPanel(resultItems, timers, "")

\* selectCurrentTag on Enter after a navigation key: the facet is added
\* (search cleared, refresh), the view refreshes once more and restores the
\* focus at once
SelectCurrentTag(entries, resultItems) ==
  /\ panelOpen
  /\ route(keyboardNavigator, "Enter", FALSE) = "onSelectCurrentTag"
  /\ \E nav \in {handled(keyboardNavigator, "Enter", FALSE)} :
       IF getCurrentFocusedTag(nav) = <<>>
         THEN /\ keyboardNavigator' = nav
              /\ UNCHANGED <<navPanel, expansionManager, tagPanel>>
         ELSE /\ \E first \in {TagRenderer_renderCoTags(entries, <<>>, expansionManager,
                                                        tagPanel.coTagSort)} :
                   \E r \in {TagRenderer_renderCoTags(entries, <<>>, first.manager,
                                                      tagPanel.coTagSort)} :
                      Painted(r, entries, <<>>, tagPanel.toggled,
                              restoreFocusAfterSelection(
                                setVisibleTags(nav, r.visible),
                                getCurrentFocusedTag(nav)[1], nav.focusedTagIndex))
              /\ navPanel' = NavPanel(resultItems, navPanel.restoreTimers, "")
  /\ UNCHANGED <<viewOpen, viewKind, offPanel>>

MaxTimers == 1

\* a setTimeout(..., 0) callback of excludeCurrentTag with what it captured
RestoreTimer(tag, index) == [tag |-> tag, index |-> index]

\* excludeCurrentTag on Shift+Enter: toggleExcluded (search cleared, refresh),
\* and the focus is to be restored from a timer
ExcludeCurrentTag(entries, resultItems) ==
  /\ panelOpen
  /\ route(keyboardNavigator, "Enter", TRUE) = "onExcludeCurrentTag"
  /\ Len(navPanel.restoreTimers) < MaxTimers
  /\ \E nav \in {handled(keyboardNavigator, "Enter", TRUE)} :
       IF getCurrentFocusedTag(nav) = <<>>
         THEN /\ keyboardNavigator' = nav
              /\ UNCHANGED <<navPanel, expansionManager, tagPanel>>
         ELSE FacetChanged(nav, entries, resultItems,
                         Append(navPanel.restoreTimers,
                                RestoreTimer(getCurrentFocusedTag(nav)[1],
                                             nav.focusedTagIndex)))
  /\ UNCHANGED <<viewOpen, viewKind, offPanel>>

\* the timer of excludeCurrentTag fires
RestoreTimerFires ==
  /\ panelOpen
  /\ navPanel.restoreTimers # <<>>
  /\ keyboardNavigator' =
       restoreFocusAfterSelection(keyboardNavigator, Head(navPanel.restoreTimers).tag,
                                  Head(navPanel.restoreTimers).index)
  /\ navPanel' = [navPanel EXCEPT !.restoreTimers = Tail(@)]
  /\ UNCHANGED <<viewOpen, viewKind, expansionManager, tagPanel, offPanel>>

\* the tag handleSearchEnter selects: the visible tag equal to the query, or
\* the only one that includes it; <<>> when there is none
searchMatch(nav, searchQuery) ==
  IF searchQuery \in Range(nav.allVisibleTags) THEN <<searchQuery>>
  ELSE LET matches == SelectSeq(nav.allVisibleTags,
                                LAMBDA t : includes(toLowerCase(t), toLowerCase(searchQuery)))
       IN  IF Len(matches) = 1 THEN <<matches[1]>> ELSE <<>>

\* handleSearchEnter on Enter in search mode, or in the tags after a search
\* interaction
SearchEnter(entries, resultItems) ==
  /\ panelOpen
  /\ route(keyboardNavigator, "Enter", FALSE) = "onSearchEnter"
  /\ \E nav \in {handled(keyboardNavigator, "Enter", FALSE)} :
       IF trim(tagPanel.searchQuery) = <<>> \/ searchMatch(nav, tagPanel.searchQuery) = <<>>
         THEN /\ keyboardNavigator' = nav
              /\ UNCHANGED <<navPanel, expansionManager, tagPanel>>
         ELSE FacetChanged(nav, entries, resultItems, navPanel.restoreTimers)
  /\ UNCHANGED <<viewOpen, viewKind, offPanel>>

\* a click on a leaf row, a double click on a parent row or an Alt+click: the
\* FacetManager changes, clears the search and refreshes
MouseSelect(entries, resultItems) ==
  /\ panelOpen
  /\ tagPanel.rows # <<>>
  /\ FacetChanged(keyboardNavigator, entries, resultItems, navPanel.restoreTimers)
  /\ UNCHANGED <<viewOpen, viewKind, offPanel>>

\* the search box takes the focus: its "focus" listener calls focusSearch()
FocusInput ==
  /\ panelOpen
  /\ keyboardNavigator' = focusSearch(keyboardNavigator)
  /\ UNCHANGED <<viewOpen, viewKind, navPanel, expansionManager, tagPanel, offPanel>>

\* the co-tag frequencies a refresh may find while the keys are followed
KeyFreqs == { <<>>, <<Entry(<<"a", "/", "b">>, 1), Entry(<<"b">>, 1)>> }

\* the navigator under keys, timers, mouse selections and refreshes
NextKeys ==
  \/ \E entries \in KeyFreqs, n \in 0..MaxResults : OpenPanel("count", entries, n)
  \/ \E entries \in KeyFreqs, n \in 0..MaxResults : Reindexed(entries, n)
  \/ \E query \in Queries : SearchInput(query)
  \/ \E key \in Keys, shiftKey \in BOOLEAN : KeyDown(key, shiftKey)
  \/ SlashCommandStart
  \/ SlashTyped
  \/ \E key \in Keys : Typing(key)
  \/ \E entries \in KeyFreqs, n \in 0..MaxResults : TypingEnter(entries, n)
  \/ \E expanded \in BOOLEAN : ExpandOrCollapseCurrentTag(expanded)
  \/ \E entries \in KeyFreqs, n \in 0..MaxResults : SelectCurrentTag(entries, n)
  \/ \E entries \in KeyFreqs, n \in 0..MaxResults : ExcludeCurrentTag(entries, n)
  \/ RestoreTimerFires
  \/ \E entries \in KeyFreqs, n \in 0..MaxResults : SearchEnter(entries, n)
  \/ \E entries \in KeyFreqs, n \in 0..MaxResults : MouseSelect(entries, n)
  \/ FocusInput

SpecKeys == Init /\ [][NextKeys]_vars

\* the co-tag panel of src/FacetNavigatorView.ts builds its tree
BuildTagTree ==
  /\ treeRoots' = Tree("utils", buildTagTree(treeFreq))
  /\ UNCHANGED <<vault, indexVars, ready, viewVars, treeFreq, tagPathVars, safeRebuild,
                 lastEvent, uiVars>>

\* TagRenderer.renderCoTags builds its tree
RenderCoTags ==
  /\ treeRoots' = Tree("TagRenderer", TagRenderer_buildTagTree(treeFreq))
  /\ UNCHANGED <<vault, indexVars, ready, viewVars, treeFreq, tagPathVars, safeRebuild,
                 lastEvent, uiVars>>

\* buildTagTree over every frequency map
InitTree ==
  /\ Loaded
  /\ matchCall = NoCall
  /\ treeFreq \in FreqMaps
  /\ treeRoots = NoTree
  /\ rawTag = <<>>
  /\ tagPath = <<>>
  /\ ancestors = <<>>

NextTree == BuildTagTree \/ RenderCoTags

SpecTree == InitTree /\ [][NextTree]_vars

\* the characters raw tag strings are made of
Chars == { "#", " ", "A", "/", "b" }

RECURSIVE StringsOf(_)
StringsOf(n) ==
  IF n = 0 THEN { <<>> }
  ELSE { Append(x, c) : x \in { y \in StringsOf(n - 1) : Len(y) = n - 1 }, c \in Chars }

RawStrings == UNION { StringsOf(n) : n \in 0..MaxLen }

\* collectTags normalizes a raw tag
Normalize ==
  /\ tagPath = <<>>
  /\ tagPath' = <<normalize(rawTag)>>
  /\ UNCHANGED <<vault, indexVars, ready, viewVars, treeVars, rawTag, ancestors,
                 safeRebuild, lastEvent, uiVars>>

\* indexFile asks for the ancestor chain of the normalized tag
ParentsOf ==
  /\ tagPath # <<>>
  /\ ancestors = <<>>
  /\ ancestors' = <<parentsOf(tagPath[1])>>
  /\ UNCHANGED <<vault, indexVars, ready, viewVars, treeVars, rawTag, tagPath,
                 safeRebuild, lastEvent, uiVars>>

\* normalize and parentsOf over every raw tag string
InitTagPath ==
  /\ Loaded
  /\ matchCall = NoCall
  /\ treeFreq = <<>>
  /\ treeRoots = NoTree
  /\ rawTag \in RawStrings
  /\ tagPath = <<>>
  /\ ancestors = <<>>

NextTagPath == Normalize \/ ParentsOf

SpecTagPath == InitTagPath /\ [][NextTagPath]_vars

\* the match modes a caller can hand over at run time: the two of TagMatchMode
\* and the name the view of src/FacetNavigatorView.ts gives the subtree mode
FilterModes == { "exact", "prefix", "descendants" }

RECURSIVE FilterListsOf(_)
FilterListsOf(n) ==
  IF n = 0 THEN { <<>> }
  ELSE { Append(l, Facet(t, m)) :
           l \in { x \in FilterListsOf(n - 1) : Len(x) = n - 1 },
           t \in { <<"a">>, <<"a", "/", "b">> }, m \in FilterModes }

FilterLists == UNION { FilterListsOf(n) : n \in 0..MaxSelected }

FileTagSets == SUBSET { <<"a">>, <<"a", "/", "b">>, <<"a", "/", "b", "/", "c">> }

\* facetManager.getTagFilters() on the entries of matchCall.filters
GetTagFilters ==
  /\ matchCall.built = <<>>
  /\ matchCall' = [matchCall EXCEPT
                     !.built = <<Outcome(FALSE, getTagFilters(matchCall.filters))>>]
  /\ UNCHANGED <<vault, indexVars, ready, viewVars, treeVars, tagPathVars, safeRebuild,
                 lastEvent, savedViews, traceVars,
                 widgetVars>>

\* facetManager.fileMatches(filters, fileTags)
FileMatches ==
  /\ matchCall.result = <<>>
  /\ matchCall' = [matchCall EXCEPT
                     !.result = <<Outcome(FALSE, fileMatches(matchCall.filters,
                                                             matchCall.fileTags))>>]
  /\ UNCHANGED <<vault, indexVars, ready, viewVars, treeVars, tagPathVars, safeRebuild,
                 lastEvent, savedViews, traceVars,
                 widgetVars>>

\* getTagFilters and fileMatches over every filter list
InitFilters ==
  /\ Loaded
  /\ treeFreq = <<>>
  /\ treeRoots = NoTree
  /\ rawTag = <<>>
  /\ tagPath = <<>>
  /\ ancestors = <<>>
  /\ \E l \in FilterLists, tags \in FileTagSets : matchCall = Call(l, tags, <<>>, <<>>)

NextFilters == GetTagFilters \/ FileMatches

SpecFilters == InitFilters /\ [][NextFilters]_vars

\* a rebuild that gives up control after every file
rebuildTaskPerFile(ix, v, todo) ==
  IF todo \cap DOMAIN v = {} THEN [index |-> ix, rest |-> {}]
  ELSE LET f == CHOOSE x \in todo \cap DOMAIN v : TRUE
       IN  [index |-> indexFile(ix, f, getFileCache(v, f)),
            rest |-> (todo \cap DOMAIN v) \ {f}]

\* what rebuild does with the files it has yet to index before it gives up
\* control: its loop holds no await, it indexes them all
rebuildTask(ix, v, todo) == [index |-> indexFiles(ix, v, todo), rest |-> {}]

\* a debounce that drops the call: no timer is started
ResolvedDropped ==
  /\ lastEvent' = Event("resolved", <<>>, safeRebuild.timer, FALSE)
  /\ UNCHANGED <<vault, indexVars, ready, viewVars, treeVars, tagPathVars, safeRebuild,
                 uiVars>>

\* metadataCache "resolved": safeRebuild() is called, which starts the debounce
\* timer, or starts it anew when it runs (resetTimer). The event is logged as
\* known when the timer ran already
Resolved ==
  /\ safeRebuild' = [safeRebuild EXCEPT !.timer = TRUE]
  /\ lastEvent' = Event("resolved", <<>>, safeRebuild.timer, FALSE)
  /\ UNCHANGED <<vault, indexVars, ready, viewVars, treeVars, tagPathVars, uiVars>>

\* the timer fires and the callback runs up to its await: rebuild() clears the
\* maps and indexes the markdown files. (The continuation of the callback runs
\* before any timer, so the timer fires on an idle safeRebuild.)
RunSafeRebuild ==
  /\ IF safeRebuild.stage = "rebuilding" THEN TRUE
       ELSE safeRebuild.timer /\ safeRebuild.stage = "idle"
  /\ \E task \in { IF safeRebuild.stage = "rebuilding"
                      THEN rebuildTask(idx, vault, safeRebuild.rest)
                      ELSE rebuildTask(clear(idx), vault, getMarkdownFiles(vault)) } :
        /\ SetIndex(task.index)
        /\ safeRebuild' = SafeRebuild(IF safeRebuild.stage = "rebuilding"
                                        THEN safeRebuild.timer ELSE FALSE,
                                      IF task.rest = {} THEN "awaiting" ELSE "rebuilding",
                                      task.rest)
  /\ ready' = TRUE
  /\ lastEvent' = Event("rebuild", <<>>, staleIds # {}, FALSE)
  /\ UNCHANGED <<vault, viewVars, treeVars, tagPathVars, uiVars>>

\* the callback resumes after its await: onReady()
ResumeSafeRebuild ==
  /\ safeRebuild.stage = "awaiting"
  /\ safeRebuild' = [safeRebuild EXCEPT !.stage = "idle"]
  /\ onReady(idx)
  /\ UNCHANGED <<vault, ready, treeVars, tagPathVars, lastEvent, uiVars>>

\* the indexer under the watcher events, the steps of safeRebuild apart
NextRebuild ==
  \/ Resolved
  \/ RunSafeRebuild
  \/ ResumeSafeRebuild
  \/ \E f \in Paths, c \in LegacyTagLists : OnChanged(f, c)
  \/ \E f \in Paths : OnDelete(f)
  \/ \E f \in Paths, c \in LegacyTagLists : OnCreate(f, c)
  \/ \E o \in Paths, f \in Paths : OnRename(o, f)

SpecRebuild == Init /\ [][NextRebuild]_vars

\* a pending timer fires and a pending continuation runs: the event loop leaves
\* neither waiting for ever
SpecRebuildFair ==
  SpecRebuild /\ WF_vars(RunSafeRebuild) /\ WF_vars(ResumeSafeRebuild)

(***************************************************************************)
(* Properties of the tag index.                                            *)
(***************************************************************************)
\* t2 is t or a descendant of t
isDescendantOrSelf(t2, t) == t2 = t \/ startsWith(t2, t \o <<"/">>)

\* every tag that is a key of either postings map
knownTags == DOMAIN exactTagToFiles \cup DOMAIN tagToFiles

\* C1: the rolled-up postings of every tag are the union of the exact postings
\* of the tag and of its descendants
RollupIsUnionOfExact ==
  \A t \in knownTags :
     GetOrEmpty(tagToFiles, t) =
       UNION { exactTagToFiles[t2] :
                 t2 \in { x \in DOMAIN exactTagToFiles : isDescendantOrSelf(x, t) } }

\* C2: after every watcher event the three maps are the maps a rebuild over the
\* vault's markdown files produces
IndexMatchesRebuild == idx = rebuild(EmptyIndex, vault)

\* C4: a note's exact tags are the normalized tags of its last tag list without
\* the empty ones, and the exact postings hold the note under these tags only
ExactTagsAreNormalizedTags ==
  \A f \in getMarkdownFiles(vault) :
     LET T == { normalize(r) : r \in vault[f] } \ {<<>>}
     IN  /\ exactTagsForFile(idx, f) = T
         /\ \A t \in knownTags \cup T : (f \in GetOrEmpty(exactTagToFiles, t)) <=> (t \in T)

RECURSIVE removeFiles(_, _)
\* removeFile for every id of a set
removeFiles(ix, ids) ==
  IF ids = {} THEN ix
  ELSE LET f == CHOOSE x \in ids : TRUE
       IN  removeFiles(removeFile(ix, f), ids \ {f})

\* what C7 asks of the index after removeFile(f)
Removed(f) ==
  /\ \A t \in DOMAIN exactTagToFiles' : f \notin exactTagToFiles'[t]
  /\ \A t \in DOMAIN tagToFiles' : f \notin tagToFiles'[t]
  /\ exactTagsForFile(idx', f) = {}

\* C7: after the removal of a note the note is in no postings set, it has no
\* exact tags, and no tag whose only postings were the note is left in allTags();
\* the removal of an unknown id changes nothing
RemovalComplete ==
  [][/\ \A f \in getMarkdownFiles(vault) :
          OnDelete(f) =>
            /\ Removed(f)
            /\ \A t \in allTags(idx) : tagToFiles[t] \subseteq {f} => t \notin allTags(idx')
     /\ \A o \in DOMAIN vault : \A f \in ViewPaths : OnRename(o, f) => Removed(o)
     /\ \A id \in Paths \ DOMAIN fileToExactTags : removeFile(idx, id) = idx]_vars

\* a known note was deleted and took the last postings of a tag with it, while
\* another note keeps its tags
RemovedWhileOthersRemain ==
  /\ lastEvent.kind = "delete"
  /\ lastEvent.known
  /\ tagToFiles # EmptyMap
  /\ <<"a", "/", "b">> \notin DOMAIN tagToFiles

\* C8: no key of the exact or of the rolled-up postings maps to an empty set, so
\* every tag of allTags() has a document
NoEmptyBuckets ==
  /\ \A t \in DOMAIN exactTagToFiles : exactTagToFiles[t] # {}
  /\ \A t \in allTags(idx) : tagToFiles[t] # {}

\* a note that had tags was re-indexed without any, and no bucket is left
LastTagsDropped ==
  /\ lastEvent.kind = "changed"
  /\ lastEvent.known
  /\ ~lastEvent.same
  /\ vault[lastEvent.path] = {}
  /\ extension(lastEvent.path) = "md"
  /\ exactTagToFiles = EmptyMap
  /\ tagToFiles = EmptyMap

\* C9: indexing a note a second time with the same tag list changes none of the
\* three maps
IndexTwiceIsIndexOnce ==
  \A f \in ViewPaths : \A T \in TagLists :
     LET once == indexFile(idx, f, T)
     IN  indexFile(once, f, T) = once

\* a "changed" event re-indexed a note that carries nested tags with the tag
\* list it had
ReindexedWithSameTags ==
  /\ lastEvent.kind = "changed"
  /\ lastEvent.same
  /\ extension(lastEvent.path) = "md"
  /\ Cardinality(vault[lastEvent.path]) = MaxTags
  /\ Cardinality(DOMAIN tagToFiles) >= 2

\* C10: a rebuild yields what removeFile for every known id followed by
\* indexFile for every markdown file yields, whatever the index held before
RebuildIsRemoveAllThenIndexAll ==
  /\ rebuild(idx, vault) =
       indexFiles(removeFiles(idx, DOMAIN fileToExactTags), vault, getMarkdownFiles(vault))
  /\ rebuild(idx, vault) = rebuild(EmptyIndex, vault)

\* a rebuild ran while the index still held a note that has left the vault's
\* markdown files
RebuiltOverStaleIndex ==
  /\ lastEvent.kind = "resolved"
  /\ lastEvent.known
  /\ tagToFiles # EmptyMap

(***************************************************************************)
(* Properties of the views.                                                *)
(***************************************************************************)
\* a step of the view of src/FacetNavigatorView.ts that only queries the index
LegacyQueryStep ==
  \/ \E se \in BOOLEAN : OpenView("legacy", se, {})
  \/ FacetStep

\* C3: no query of the view changes the three maps of the indexer
QueriesLeaveIndexUnchanged == [][LegacyQueryStep => UNCHANGED indexVars]_vars

\* the postings a facet stands for
postingsFor(facet) ==
  IF facet.mode = "exact"
    THEN GetOrEmpty(exactTagToFiles, facet.tag)
    ELSE GetOrEmpty(tagToFiles, facet.tag)

\* every ordering of a sequence
Orderings(seq) ==
  { [i \in 1..Len(seq) |-> seq[p[i]]] : p \in Permutations(1..Len(seq)) }

\* C6: for a non-empty selection the evaluated set is the intersection of the
\* postings of every facet, in whatever order the facets are handed over
IntersectionOfPostings ==
  (viewOpen /\ selected # <<>> /\ excluded = <<>>) =>
    /\ currentFiles = { f \in Paths : \A i \in 1..Len(selected) : f \in postingsFor(selected[i]) }
    /\ \A tags \in Orderings(keys(selected)) :
          filesWithAll(idx, tags, exactTagsOf(selected)) = currentFiles

\* two facets whose postings differ in size, the larger first, and a result
\* that is neither empty nor one of the two postings
TwoFacetsIntersected ==
  /\ viewOpen
  /\ Len(selected) = 2
  /\ excluded = <<>>
  /\ Cardinality(postingsFor(selected[1])) > Cardinality(postingsFor(selected[2]))
  /\ currentFiles # {}
  /\ currentFiles # postingsFor(selected[1])

\* C5: no file of the result set carries an excluded tag or a descendant of one
ExcludedNeverInResult ==
  viewOpen =>
    \A f \in currentFiles : \A e \in Range(excluded) :
       ~\E t \in exactTagsForFile(idx, f) : isDescendantOrSelf(t, e)

\* C11: a raw tag that normalizes to the empty string is dropped: the empty tag
\* is in no note's exact tag set and is no key of the exact or of the rolled-up
\* postings
EmptyTagDropped ==
  /\ \A f \in DOMAIN fileToExactTags : <<>> \notin fileToExactTags[f]
  /\ <<>> \notin DOMAIN exactTagToFiles
  /\ <<>> \notin DOMAIN tagToFiles

\* C12: no file under an excluded folder is in the result set of refresh, the
\* set the co-tag frequencies are counted over
ExcludedFolderNeverInResult ==
  viewOpen => \A f \in currentFiles : ~isFileInExcludedFolder(f, excludedFolders)

\* the notes that carry at least one tag
taggedDocuments ==
  { f \in getMarkdownFiles(vault) : \E r \in vault[f] : normalize(r) # <<>> }

\* C13: with no facet selected the result set is empty under startEmpty, and
\* otherwise it is the union of all rolled-up postings, which is the set of the
\* notes that carry a tag
EmptySelectionPolicy ==
  (viewOpen /\ selected = <<>>) =>
    IF startEmpty
      THEN currentFiles = {}
      ELSE /\ currentFiles = UNION { tagToFiles[t] : t \in DOMAIN tagToFiles }
           /\ currentFiles = taggedDocuments

(***************************************************************************)
(* Properties of the co-tag panel.                                         *)
(***************************************************************************)
\* the files of a set whose own exact tags contain t
carriers(files, t) ==
  { f \in files \cap DOMAIN fileToExactTags : t \in fileToExactTags[f] }

\* C14: for every set of files and every exclude set the frequency of a tag is
\* the number of files of the set whose own exact tags contain it; a tag is a
\* key exactly when it is not excluded and that number is positive; files the
\* index does not know add nothing. The map of the co-tag panel is such a map.
FrequenciesCountExactTags ==
  /\ \A files \in SUBSET Paths : \A exclude \in SUBSET DOMAIN exactTagToFiles :
        LET freq == coTagFrequencies(idx, files, exclude)
        IN  /\ DOMAIN freq = { t \in DOMAIN exactTagToFiles \ exclude :
                                 carriers(files, t) # {} }
            /\ \A t \in DOMAIN freq : freq[t] = Cardinality(carriers(files, t))
            /\ freq = coTagFrequencies(idx, files \cap DOMAIN fileToExactTags, exclude)
  /\ viewOpen =>
        /\ \A t \in DOMAIN coFreq : coFreq[t] = Cardinality(carriers(currentFiles, t))
        /\ DOMAIN coFreq \cap (Range(keys(selected)) \cup Range(excluded)) = {}

\* the panel counts a tag that two result files carry while a selected tag and
\* an ancestor carried by one file only are handled apart
CoTagCountedTwice ==
  /\ viewOpen
  /\ selected # <<>>
  /\ Cardinality(currentFiles) = 2
  /\ \E t \in DOMAIN coFreq : coFreq[t] = 2
  /\ \E t \in DOMAIN coFreq : coFreq[t] = 1

\* C15: the frequency map of the co-tag panel holds no descendant of an excluded
\* tag, and a second enlarge-and-recompute pass finds nothing to exclude
NoExcludedDescendantInCoTags ==
  (viewOpen /\ viewKind = "facets") =>
    /\ \A t \in DOMAIN coFreq : \A e \in Range(excluded) :
          ~startsWith(t, e \o <<"/">>)
    /\ additionalExclusions(excluded, coFreq) = {}

\* the first pass over the result set met descendants of an excluded tag, two
\* and three segments deep, and the panel still shows another tag
SecondPassTaken ==
  /\ viewOpen
  /\ viewKind = "facets"
  /\ LET first == coTagFrequencies(idx, currentFiles,
                                   Range(keys(selected)) \cup Range(excluded))
     IN  /\ \E t \in additionalExclusions(excluded, first) : Len(t) = 3
         /\ \E t \in additionalExclusions(excluded, first) : Len(t) = 5
  /\ coFreq # EmptyMap

(***************************************************************************)
(* Properties of the co-tag tree.                                          *)
(***************************************************************************)
RECURSIVE sumOfCounts(_, _)
sumOfCounts(nodes, ks) ==
  IF ks = {} THEN 0
  ELSE LET k == CHOOSE x \in ks : TRUE
       IN  nodes[k].count + sumOfCounts(nodes, ks \ {k})

childrenOf(nodes, k) == { c \in DOMAIN nodes : nodes[c].parent = <<k>> }

\* C16: in a tree buildTagTree returned, the rolled-up count of every node is
\* its exact count plus the counts of its direct children
CountIsExactPlusChildren ==
  \A k \in DOMAIN treeRoots.nodes :
     treeRoots.nodes[k].count =
       treeRoots.nodes[k].exactCount
         + sumOfCounts(treeRoots.nodes, childrenOf(treeRoots.nodes, k))

\* the slash-delimited prefixes of a tag, the tag included
prefixPaths(tag) ==
  { SubSeq(tag, 1, j - 1) : j \in { i \in 1..Len(tag) : tag[i] = "/" } } \cup {tag}

lastSegment(full) == split(full)[Len(split(full))]

RECURSIVE sumOfFreq(_)
sumOfFreq(entries) ==
  IF entries = {} THEN 0
  ELSE LET e == CHOOSE x \in entries : TRUE
       IN  e.n + sumOfFreq(entries \ {e})

\* C17: the tree has one node per prefix path of the tags of the frequency map;
\* a node's label is the last segment of its full path, its exact count is the
\* frequency of its full path (0 when that is no key), and its rolled-up count
\* is the sum of the frequencies of the tags at or below its full path
TreeMatchesFrequencies ==
  treeRoots.by # "none" =>
    LET nodes == treeRoots.nodes
        paths == UNION { prefixPaths(e.tag) : e \in Range(treeFreq) }
    IN  /\ { nodes[k].full : k \in DOMAIN nodes } = paths
        /\ Cardinality(DOMAIN nodes) = Cardinality(paths)
        /\ \A k \in DOMAIN nodes :
              /\ nodes[k].label = lastSegment(nodes[k].full)
              /\ nodes[k].exactCount =
                   sumOfFreq({ e \in Range(treeFreq) : e.tag = nodes[k].full })
              /\ nodes[k].count =
                   sumOfFreq({ e \in Range(treeFreq) :
                                 isDescendantOrSelf(e.tag, nodes[k].full) })

(***************************************************************************)
(* Properties of tag paths.                                                *)
(***************************************************************************)
\* C18: normalizing a normalized tag gives the same tag
NormalizeIsIdempotent ==
  tagPath # <<>> => normalize(tagPath[1]) = tagPath[1]

\* the slash-delimited prefixes of a tag from the root to the tag itself
prefixChain(tag) ==
  LET cuts == { j \in 1..Len(tag) : tag[j] = "/" } \cup { Len(tag) + 1 }
  IN  [i \in 1..Cardinality(cuts) |->
         SubSeq(tag, 1, (CHOOSE j \in cuts :
                           Cardinality({ k \in cuts : k < j }) = i - 1) - 1)]

\* C19: the ancestor chain of a non-empty normalized tag is the sequence of its
\* slash-delimited prefixes from the root down: each a prefix of the tag, the
\* last the tag itself; the chain of the empty tag is empty
ChainIsPrefixes ==
  ancestors # <<>> =>
    LET tag == tagPath[1]
        chain == ancestors[1]
    IN  IF tag = <<>>
          THEN chain = <<>>
          ELSE /\ chain = prefixChain(tag)
               /\ chain[Len(chain)] = tag
               /\ \A i \in 1..Len(chain) : startsWith(tag, chain[i])

(***************************************************************************)
(* Properties of safeRebuild.                                              *)
(***************************************************************************)
\* C20: whenever a handler, a query or onReady can run, no rebuild is under way
\* with files still to index, and every markdown file of the vault is in the
\* index with the tags of its cache: also when onReady() of a rebuild is due
RebuildIsAllOrNothing ==
  /\ safeRebuild.stage # "rebuilding"
  /\ safeRebuild.rest = {}
  /\ \A f \in getMarkdownFiles(vault) :
        /\ f \in DOMAIN fileToExactTags
        /\ fileToExactTags[f] = collectTags(getFileCache(vault, f))
        /\ \A t \in fileToExactTags[f] : f \in GetOrEmpty(exactTagToFiles, t)

\* a "changed" event was handled between a rebuild of two tagged notes and the
\* onReady() of that rebuild, with the timer running again
EventBetweenRebuildAndOnReady ==
  /\ safeRebuild.stage = "awaiting"
  /\ safeRebuild.timer
  /\ lastEvent.kind = "changed"
  /\ Cardinality(DOMAIN exactTagToFiles) = 2
  /\ Cardinality(getMarkdownFiles(vault)) = 2

(***************************************************************************)
(* Properties of the FacetManager.                                         *)
(***************************************************************************)
\* the last operation returned before it assigned anything: addFacet or
\* addFacetExact of a tag that normalizes to the empty string, toggleFacetMode of
\* a tag that is not selected
returnedEarly ==
  LET n == canon(viewKind, refreshLog.tag)
  IN  \/ refreshLog.op \in {"addFacet", "addFacetExact"} /\ n = <<>>
      \/ refreshLog.op = "toggleFacetMode" /\ ~has(selected, n)

\* C21: an operation of the FacetManager that returns early calls onRefresh not
\* at all, every other operation calls it once; the call finds the facets as the
\* operation left them, and the facets never differ from what the last call
\* found
RefreshOnceAfterChange ==
  (viewKind = "manager" /\ refreshLog.op # "none") =>
     /\ refreshLog.calls = (IF returnedEarly THEN 0 ELSE 1)
     /\ IF refreshLog.seen = <<>>
          THEN selected = <<>> /\ excluded = <<>>
          ELSE refreshLog.seen = <<selected, excluded>>

\* toggleExcluded changed the excluded set under two selected facets and its
\* callback ran
ExcludedToggledAndRefreshed ==
  /\ viewKind = "manager"
  /\ refreshLog.op = "toggleExcluded"
  /\ refreshLog.calls = 1
  /\ Len(selected) = 2
  /\ excluded # <<>>

\* the nodes of a co-tag tree over the tags handed to the manager
nodeTags == { canon("manager", t) : t \in ManagerInputs } \ { <<>> }

\* C22: hasSelectedDescendants holds of a node iff a selected or excluded tag is
\* the node's tag, a proper descendant of it or a proper ancestor of it
SuppressedIffRelated ==
  viewKind = "manager" =>
    \A full \in nodeTags :
       hasSelectedDescendants(selected, excluded, full)
         <=> \E f \in Range(keys(selected)) \cup Range(excluded) :
                \/ f = full
                \/ startsWith(f, full \o <<"/">>)
                \/ startsWith(full, f \o <<"/">>)

\* C23: toggleFacetMode and removeFacet of a tag that is not selected leave the
\* selected map and the excluded set as they are; toggleFacetMode of a selected
\* tag gives that entry the other mode and leaves the other entries, their
\* order and the excluded set as they are
UnselectedIsNoOp ==
  [][viewKind = "manager" =>
       \A t \in ManagerInputs :
          LET n == canon(viewKind, t)
          IN  /\ (toggleFacetMode(t) /\ ~has(selected, n))
                   => UNCHANGED <<selected, excluded>>
              /\ (removeFacet(t) /\ ~has(selected, n))
                   => UNCHANGED <<selected, excluded>>
              /\ (toggleFacetMode(t) /\ has(selected, n))
                   => /\ excluded' = excluded
                      /\ Len(selected') = Len(selected)
                      /\ \A i \in 1..Len(selected) :
                            IF selected[i].tag = n
                              THEN /\ selected'[i].tag = n
                                   /\ selected'[i].mode \in {"exact", "prefix"}
                                   /\ selected'[i].mode # selected[i].mode
                              ELSE selected'[i] = selected[i]]_vars

\* toggleFacetMode was called with a tag that is not selected while other facets
\* are selected and excluded
ToggledUnselected ==
  /\ viewKind = "manager"
  /\ refreshLog.op = "toggleFacetMode"
  /\ refreshLog.calls = 0
  /\ selected # <<>>
  /\ excluded # <<>>

\* C24: a filter whose mode is neither "exact" nor "prefix" makes getTagFilters
\* and fileMatches throw
InvalidModeRejected ==
  (\E i \in 1..Len(matchCall.filters) :
      matchCall.filters[i].mode \notin {"exact", "prefix"})
    => /\ matchCall.built # <<>> => matchCall.built[1].threw
       /\ matchCall.result # <<>> => matchCall.result[1].threw

(***************************************************************************)
(* Properties of the saved views.                                          *)
(***************************************************************************)
\* the record saved under name
savedAs(views, name) == views[CHOOSE i \in 1..Len(views) : views[i].name = name]

\* C25: the record saveView stores brings back the facets of the moment when it
\* is opened: setFacets of its tags selects the tags that are selected now and
\* leaves excluded the tags that are excluded now
SavedViewRestoresFacets ==
  [][\A name \in ViewNames :
        (SaveView(name) /\ selected # <<>>) =>
           \A d \in BOOLEAN :
              LET \* setFacets(sv.tags): the selected map it builds, and the
                  \* excluded set, which it clears (sv.exclude is not handed over)
                  restored == setFacetsMap(viewKind, savedAs(savedViews', name).tags, d)
                  cleared == <<>>
              IN  /\ Range(keys(restored)) = Range(keys(selected))
                  /\ Range(cleared) = Range(excluded)]_vars

\* C29: after saveView under a name that is taken, the record of that name holds
\* the selected keys as tags and the excluded tags as exclude (none or an empty
\* list when nothing is excluded), and no two records bear one name
SavedViewIsSnapshot ==
  [][\A name \in ViewNames :
        (/\ SaveView(name)
         /\ selected # <<>>
         /\ \E i \in 1..Len(savedViews) : savedViews[i].name = name) =>
           /\ savedAs(savedViews', name).tags = keys(selected)
           /\ savedAs(savedViews', name).exclude \in
                (IF excluded = <<>> THEN { <<>>, << <<>> >> } ELSE { <<excluded>> })
           /\ \A i, j \in 1..Len(savedViews') :
                 savedViews'[i].name = savedViews'[j].name => i = j]_vars

(***************************************************************************)
(* Properties of the view of src/FacetNavigatorView.ts.                    *)
(***************************************************************************)
\* C26: with facets selected, no note of the result set carries an excluded tag
\* or a descendant of one, however many tags are excluded
LegacyExcludesEveryNotTag ==
  (viewOpen /\ viewKind = "legacy" /\ selected # <<>>) =>
     \A f \in currentFiles : \A e \in Range(excluded) :
        ~\E t \in collectTags(getFileCache(vault, f)) : isDescendantOrSelf(t, e)

(***************************************************************************)
(* Properties of the watchers.                                             *)
(***************************************************************************)
\* the open view shows what refresh() computes from the index, the vault and the
\* facets of this state
viewInSync ==
  LET r == refresh(viewKind, idx, vault, selected, excluded, startEmpty, excludedFolders)
  IN  /\ currentFiles = r.currentFiles
      /\ coFreq = renderCoTags(viewKind, r.index, r.currentFiles, selected, excluded)

\* the step is the handler of a "changed", "create", "delete" or "rename" event
\* for the file f (of a rename: for the new path f)
watcherEvent(f) ==
  \/ \E c \in LegacyTagLists : OnChanged(f, c)
  \/ \E c \in LegacyTagLists : OnCreate(f, c)
  \/ OnDelete(f)
  \/ \E o \in Paths : OnRename(o, f)

DoubleClickAddsLoneClickToggles ==
  /\ gesture.phase = "double" =>
        /\ gesture.adds = 1
        /\ has(selected, gesture.tag)
        /\ gesture.toggles = 0
  /\ gesture.phase = "single" =>
        /\ gesture.toggles = 1
        /\ gesture.adds = 0

\* C31: a co-tag with children that is selected in the panel becomes a facet of
\* mode "prefix", a leaf one of mode "exact", whatever includeDescendantsByDefault
\* is set to
ParentSelectedAsPrefix ==
  [][\A tag \in SelectTags, d \in BOOLEAN :
        SelectTag(tag, d) =>
          /\ has(selected', tag)
          /\ modeOf(selected', tag) =
                IF tag \in expandableTags(coFreq) THEN "prefix" ELSE "exact"]_vars

RECURSIVE entriesOf(_)
\* the entries of a frequency map, in one of its Map orders (the counts of the
\* tree do not depend on the order)
entriesOf(freq) ==
  IF DOMAIN freq = {} THEN <<>>
  ELSE LET t == CHOOSE x \in DOMAIN freq : TRUE
       IN  <<Entry(t, freq[t])>> \o entriesOf([x \in DOMAIN freq \ {t} |-> freq[x]])

\* the tree the TagRenderer builds from the co-tag frequencies of the view
coTagTree == TagRenderer_buildTagTree(entriesOf(coFreq))

\* C32: the count of every node of the co-tag tree is the number of distinct
\* documents of the result set that carry a co-tag at or below the node
BranchCountIsDistinctDocuments ==
  (viewOpen /\ viewKind = "facets") =>
    \A k \in DOMAIN coTagTree :
       coTagTree[k].count =
         Cardinality({ f \in currentFiles :
                         \E t \in DOMAIN coFreq \cap GetOrEmpty(fileToExactTags, f) :
                            isDescendantOrSelf(t, coTagTree[k].full) })

\* C34: expandAllTags (collapseAllTags) leaves every node the ExpansionManager
\* knew, and that the render without search query it ends with shows, expanded
\* (collapsed)
AllExpandedOrCollapsedOnNextRender ==
  [][\A expanded \in BOOLEAN :
        ExpandOrCollapseAllTags(expanded) =>
          \A t \in DOMAIN expansionManager.expansionState \cap DOMAIN tagPanel'.expanded :
             tagPanel'.expanded[t] = expanded]_vars

\* C35: a node the user has toggled is rendered in the state the toggle gave it,
\* at the render of the toggle and at every later one, with and without search
\* query, until it is toggled again or clear, expandAll or collapseAll runs
ToggledStateKept ==
  panelOpen =>
    \A t \in DOMAIN tagPanel.toggled \cap DOMAIN tagPanel.expanded :
       tagPanel.expanded[t] = tagPanel.toggled[t]

\* C39: the list of visible tags the keyboard navigator holds is the list of
\* the rows on screen, in the same order, whatever is expanded and under both
\* sort modes
VisibleTagsInRowOrder ==
  panelOpen => keyboardNavigator.allVisibleTags = tagPanel.rows

\* a tag path all of whose segments are non-empty
nonEmptySegments(tag) == \A i \in 1..Len(split(tag)) : split(tag)[i] # <<>>

\* every tag path the index holds has only non-empty segments
wellFormedPaths ==
  \A t \in DOMAIN exactTagToFiles \cup DOMAIN tagToFiles
             \cup UNION { fileToExactTags[f] : f \in DOMAIN fileToExactTags } :
     nonEmptySegments(t)

\* scanning every indexed document with fileMatches over its exact tags
scanMatches(filters) ==
  { f \in DOMAIN fileToExactTags :
       fileMatches(getTagFilters(filters), exactTagsForFile(idx, f)) }

\* C36 as stated, for every filter list, the empty one included
PostingsMatchScanForEveryList ==
  wellFormedPaths =>
    \A filters \in FilterLists :
       filesWithAll(idx, keys(filters), exactTagsOf(filters)) = scanMatches(filters)

\* C36: over an index whose tag paths have only non-empty segments, a non-empty
\* filter list evaluated by intersecting postings yields the documents that
\* scanning every indexed document with fileMatches yields
PostingsMatchScan ==
  wellFormedPaths =>
    \A filters \in FilterLists \ {<<>>} :
       filesWithAll(idx, keys(filters), exactTagsOf(filters)) = scanMatches(filters)

\* a well-formed index of two documents and a list of an exact and a prefix
\* filter that one of them matches and the other does not
SelectivePostingsQuery ==
  /\ wellFormedPaths
  /\ Cardinality(DOMAIN fileToExactTags) = 2
  /\ \E filters \in FilterLists :
        /\ Len(filters) = 2
        /\ filters[1].mode = "prefix"
        /\ filters[2].mode = "exact"
        /\ filters[1].tag # filters[2].tag
        /\ Cardinality(scanMatches(filters)) = 1
        /\ \E f \in DOMAIN fileToExactTags \ scanMatches(filters) :
              fileMatches(<<filters[1]>>, fileToExactTags[f])

\* C37: the focused tag index of the navigator is -1 or an index into the list
\* of visible tags
FocusedTagIndexInRange ==
  panelOpen =>
    \/ keyboardNavigator.focusedTagIndex = -1
    \/ /\ keyboardNavigator.focusedTagIndex >= 0
       /\ keyboardNavigator.focusedTagIndex < Len(keyboardNavigator.allVisibleTags)

\* C38: in focus mode 'search' no tag and no result is focused
SearchModeFocusesNothing ==
  keyboardNavigator.focusMode = "search" =>
    /\ keyboardNavigator.focusedTagIndex = -1
    /\ keyboardNavigator.focusedResultIndex = -1

\* the region Tab enters from a focus mode
afterTab(focusMode) ==
  CASE focusMode = "search" -> "tags"
    [] focusMode = "tags" -> "results"
    [] focusMode = "results" -> "search"

\* the region Shift+Tab enters from a focus mode
afterShiftTab(focusMode) ==
  CASE focusMode = "search" -> "results"
    [] focusMode = "tags" -> "search"
    [] focusMode = "results" -> "tags"

\* the navigator has entered the region focusMode: its index is 0 and the index
\* of the other region -1
entered(nav, focusMode) ==
  /\ nav.focusMode = focusMode
  /\ nav.focusedTagIndex = IF focusMode = "tags" THEN 0 ELSE -1
  /\ nav.focusedResultIndex = IF focusMode = "results" THEN 0 ELSE -1

\* the navigator after handleKeyDown of Tab
tabbed(nav, shiftKey) ==
  moved(handled(nav, "Tab", shiftKey), route(nav, "Tab", shiftKey))

\* Shift+Tab undoes Tab, Tab undoes Shift+Tab and three Tabs come back
tabRoundTrips ==
  /\ tabbed(tabbed(keyboardNavigator, FALSE), TRUE).focusMode = keyboardNavigator.focusMode
  /\ tabbed(tabbed(keyboardNavigator, TRUE), FALSE).focusMode = keyboardNavigator.focusMode
  /\ tabbed(tabbed(tabbed(keyboardNavigator, FALSE), FALSE), FALSE).focusMode
       = keyboardNavigator.focusMode

\* a keydown of Tab enters the next region of the cycle, or the previous one
\* with Shift
tabSteps ==
  /\ KeyDown("Tab", FALSE) =>
       entered(keyboardNavigator', afterTab(keyboardNavigator.focusMode))
  /\ KeyDown("Tab", TRUE) =>
       entered(keyboardNavigator', afterShiftTab(keyboardNavigator.focusMode))

\* C33 as stated: Tab and Shift+Tab cycle, and every Escape pressed in the tags
\* or the results enters the search
FocusCycleEveryEscape ==
  /\ [](panelOpen => tabRoundTrips)
  /\ [][/\ tabSteps
        /\ (/\ keyboardNavigator.focusMode \in {"tags", "results"}
            /\ \/ \E shiftKey \in BOOLEAN : KeyDown("Escape", shiftKey)
               \/ Typing("Escape"))
             => entered(keyboardNavigator', "search")]_vars

\* C33: Tab moves the focus search -> tags -> results -> search and Shift+Tab
\* the other way round, so that either undoes the other and three Tabs come
\* back; Escape in the tags or the results, while no slash command is being
\* typed in the search box, enters the search; every transition sets the index
\* of the region entered to 0 and that of the other region to -1
FocusCycle ==
  /\ [](panelOpen => tabRoundTrips)
  /\ [][/\ tabSteps
        /\ (/\ keyboardNavigator.focusMode \in {"tags", "results"}
            /\ ~isTypingSlashCommand
            /\ \E shiftKey \in BOOLEAN : KeyDown("Escape", shiftKey))
             => entered(keyboardNavigator', "search")]_vars

\* Tab has brought the focus from a tag to the results
ResultsEnteredByTab ==
  /\ panelOpen
  /\ keyboardNavigator.allVisibleTags # <<>>
  /\ keyboardNavigator.focusMode = "results"
  /\ keyboardNavigator.focusedResultIndex = 0
  /\ keyboardNavigator.focusedTagIndex = -1
  /\ keyboardNavigator.lastInteractionType = "navigation"

====
